---- MODULE Spec2Model ----
(***************************************************************************)
(* Reference-discovery engine of wd-infernal (src/src/referee.rs):         *)
(* statement selection, candidate-URL collection, fetch and text           *)
(* extraction, pattern generation, matching, and the final sort and merge. *)
(***************************************************************************)
EXTENDS Integers, Sequences, FiniteSets, TLC

(***************************************************************************)
(* Strings.  Rust Strings are modelled by TLA+ strings; Len, SubSeq and \o *)
(* act on them character by character.  Ordering is byte-lexicographic,    *)
(* as String's Ord: Alphabet lists the characters the model uses in        *)
(* ascending byte order.                                                   *)
(***************************************************************************)
Alphabet == "\n $&+,-./0123456789:<=>?ABCDEFGHIJKLMNOPQRSTUVWXYZ\\_abcdefghijklmnopqrstuvwxyzÅäèéû"

CharAt(s, i) == SubSeq(s, i, i)

CharCode == [c \in {CharAt(Alphabet, i) : i \in 1..Len(Alphabet)} |->
               CHOOSE i \in 1..Len(Alphabet) : CharAt(Alphabet, i) = c]

RECURSIVE StrCmpFrom(_, _, _)
StrCmpFrom(a, b, i) ==
    IF i > Len(a) THEN (IF i > Len(b) THEN 0 ELSE -1)
    ELSE IF i > Len(b) THEN 1
    ELSE IF CharAt(a, i) = CharAt(b, i) THEN StrCmpFrom(a, b, i + 1)
    ELSE IF CharCode[CharAt(a, i)] < CharCode[CharAt(b, i)] THEN -1 ELSE 1

\* String::cmp: -1 (Less), 0 (Equal), 1 (Greater)
StrCmp(a, b) == IF a = b THEN 0 ELSE StrCmpFrom(a, b, 1)

\* Ordering::then
Then(first, second) == IF first # 0 THEN first ELSE second

\* Option<String>: None is <<>>, Some(s) is <<s>>; None orders before Some
None == <<>>
Some(s) == <<s>>

OptCmp(a, b) ==
    IF a = None THEN (IF b = None THEN 0 ELSE -1)
    ELSE IF b = None THEN 1
    ELSE StrCmp(a[1], b[1])

(***************************************************************************)
(* TextPart and ConciseUrlCandidate: derived and hand-written orderings.   *)
(***************************************************************************)
\* #[derive(PartialOrd, Ord)] on TextPart: field by field, in declaration order
TextPartCmp(a, b) ==
    Then(StrCmp(a.before, b.before),
         Then(StrCmp(a.regexp_match, b.regexp_match), StrCmp(a.after, b.after)))

\* impl Ord for ConciseUrlCandidate
CucCmp(a, b) ==
    Then(StrCmp(a.statement_id, b.statement_id),
    Then(StrCmp(a.url, b.url),
    Then(OptCmp(a.property, b.property),
    Then(OptCmp(a.external_id, b.external_id),
         StrCmp(a.language, b.language)))))

\* impl PartialEq for ConciseUrlCandidate
CucEq(a, b) ==
    /\ a.statement_id = b.statement_id
    /\ a.url = b.url
    /\ a.property = b.property
    /\ a.external_id = b.external_id
    /\ a.language = b.language

\* ConciseUrlCandidate::new
NewCuc(statement_id, uc, tp) ==
    [statement_id |-> statement_id,
     url          |-> uc.url,
     property     |-> uc.property,
     external_id  |-> uc.external_id,
     stated_in    |-> uc.stated_in,
     language     |-> uc.language,
     texts        |-> <<tp>>]

(***************************************************************************)
(* Vec::sort (stable) and Vec::dedup (drops consecutive repeats).          *)
(***************************************************************************)
\* Place x behind every element that does not order after it
InsertCuc(s, x) ==
    LET k == Cardinality({i \in 1..Len(s) : CucCmp(s[i], x) <= 0})
    IN  SubSeq(s, 1, k) \o <<x>> \o SubSeq(s, k + 1, Len(s))

RECURSIVE SortCucFrom(_, _)
SortCucFrom(done, rest) ==
    IF rest = <<>> THEN done
    ELSE SortCucFrom(InsertCuc(done, Head(rest)), Tail(rest))

\* A sort that is skipped
SortCucSkipped(s) == s

\* ret.sort() on Vec<ConciseUrlCandidate>
SortCuc(s) == SortCucFrom(<<>>, s)

InsertText(s, x) ==
    LET k == Cardinality({i \in 1..Len(s) : TextPartCmp(s[i], x) <= 0})
    IN  SubSeq(s, 1, k) \o <<x>> \o SubSeq(s, k + 1, Len(s))

RECURSIVE SortTextsFrom(_, _)
SortTextsFrom(done, rest) ==
    IF rest = <<>> THEN done
    ELSE SortTextsFrom(InsertText(done, Head(rest)), Tail(rest))

\* cuc.texts.sort()
SortTexts(s) == SortTextsFrom(<<>>, s)

RECURSIVE DedupFrom(_, _)
DedupFrom(done, rest) ==
    IF rest = <<>> THEN done
    ELSE IF done # <<>> /\ done[Len(done)] = Head(rest)
         THEN DedupFrom(done, Tail(rest))
         ELSE DedupFrom(Append(done, Head(rest)), Tail(rest))

\* cuc.texts.dedup()
Dedup(s) == DedupFrom(<<>>, s)

\* The two calls in the wrong order: dedup, then sort
NormalizeTextsDedupFirst(texts) == SortTexts(Dedup(texts))

\* cuc.texts.sort(); cuc.texts.dedup();
NormalizeTexts(texts) == Dedup(SortTexts(texts))

(***************************************************************************)
(* merge_cuc_candidates.  input.remove(0) panics on an empty vector.       *)
(***************************************************************************)
\* A step that folds an equal record away without taking its windows
MergeStepDropTexts(ret, current) ==
    IF CucEq(current, ret[Len(ret)]) THEN ret ELSE Append(ret, current)

\* A step that never folds a record into the one before it
MergeStepKeepApart(ret, current) == Append(ret, current)

MergeStep(ret, current) ==
    IF CucEq(current, ret[Len(ret)])
    THEN [ret EXCEPT ![Len(ret)].texts = @ \o current.texts]
    ELSE Append(ret, current)

RECURSIVE MergeFold(_, _)
MergeFold(ret, rest) ==
    IF rest = <<>> THEN ret
    ELSE MergeFold(MergeStep(ret, Head(rest)), Tail(rest))

Panicked == [panicked |-> TRUE, list |-> <<>>]
Returned(list) == [panicked |-> FALSE, list |-> list]

MergeCucCandidates(input) ==
    IF input = <<>> THEN Panicked
    ELSE LET ret == MergeFold(<<Head(input)>>, Tail(input))
         IN  Returned([i \in 1..Len(ret) |->
                         [ret[i] EXCEPT !.texts = NormalizeTexts(@)]])

(***************************************************************************)
(* String helpers: str::contains, str::find, str::replace, str::trim, and  *)
(* the regex crate's word boundary.  Positions are gaps 0..Len(s): gap g   *)
(* lies between character g and character g + 1.                           *)
(***************************************************************************)
Max(a, b) == IF a >= b THEN a ELSE b
Min(a, b) == IF a <= b THEN a ELSE b

CharsOf(s) == {CharAt(s, i) : i \in 1..Len(s)}

Digits == "0123456789"
\* \w of the regex crate, restricted to the model's alphabet
WordChars == CharsOf("0123456789ABCDEFGHIJKLMNOPQRSTUVWXYZ_abcdefghijklmnopqrstuvwxyzÅäèéû")
\* \s of the regex crate and char::is_whitespace, restricted likewise
WhiteChars == {" ", "\n", "\t", "\r"}
\* Characters encoded in two bytes of UTF-8
TwoByteChars == CharsOf("Åäèéû")

StartsWithAt(s, sub, i) ==
    /\ i >= 1
    /\ i + Len(sub) - 1 <= Len(s)
    /\ SubSeq(s, i, i + Len(sub) - 1) = sub

StartsWith(s, sub) == StartsWithAt(s, sub, 1)
EndsWith(s, sub) == StartsWithAt(s, sub, Len(s) - Len(sub) + 1)

\* str::contains
Contains(s, sub) == \E i \in 1..(Len(s) - Len(sub) + 1) : StartsWithAt(s, sub, i)

\* str::find from index `from` on: the first index, or 0 for None
IndexOfFrom(s, sub, from) ==
    LET hits == {i \in from..(Len(s) - Len(sub) + 1) : StartsWithAt(s, sub, i)}
    IN  IF hits = {} THEN 0 ELSE CHOOSE i \in hits : \A j \in hits : i <= j

IndexOf(s, sub) == IndexOfFrom(s, sub, 1)

\* Replace, left to right and without overlap, the match of length lens[i]
\* that starts at index i (lens[i] = 0: no match starts there)
RECURSIVE ReplaceByLens(_, _, _, _)
ReplaceByLens(s, lens, to, i) ==
    IF i > Len(s) THEN ""
    ELSE IF lens[i] > 0 THEN to \o ReplaceByLens(s, lens, to, i + lens[i])
    ELSE CharAt(s, i) \o ReplaceByLens(s, lens, to, i + 1)

\* str::replace with a literal, non-empty pattern
ReplaceAll(s, from, to) ==
    ReplaceByLens(s, [i \in 1..Len(s) |-> IF StartsWithAt(s, from, i) THEN Len(from) ELSE 0], to, 1)

\* str::trim
Trim(s) ==
    LET keep == {i \in 1..Len(s) : CharAt(s, i) \notin WhiteChars}
    IN  IF keep = {} THEN ""
        ELSE SubSeq(s, CHOOSE i \in keep : \A j \in keep : i <= j,
                       CHOOSE i \in keep : \A j \in keep : i >= j)

\* \b at gap g: exactly one neighbour is a word character
Boundary(s, g) ==
    LET before == g >= 1 /\ CharAt(s, g) \in WordChars
        after  == g + 1 <= Len(s) /\ CharAt(s, g + 1) \in WordChars
    IN  before # after

\* The length of the maximal run of characters of `set` that starts at index i
RunLen(s, set, i) ==
    LET stops == {j \in i..Len(s) : CharAt(s, j) \notin set}
    IN  IF stops = {} THEN Len(s) - i + 1
        ELSE (CHOOSE j \in stops : \A k \in stops : j <= k) - i

\* No "\n" among the characters i..j (the regex "." does not match "\n")
NoNewline(s, i, j) == \A k \in i..j : CharAt(s, k) # "\n"

\* usize parse of a run of digits
RECURSIVE ParseNat(_)
ParseNat(s) ==
    IF s = "" THEN 0
    ELSE 10 * ParseNat(SubSeq(s, 1, Len(s) - 1))
         + (CHOOSE d \in 0..9 : CharAt(Digits, d + 1) = CharAt(s, Len(s)))

\* {n:02}
Pad2(n) == IF n < 10 THEN "0" \o ToString(n) ELSE ToString(n)

\* &s[0..n] on bytes; `ok` is FALSE where Rust panics (n inside a character)
RECURSIVE BytePrefixFrom(_, _, _)
BytePrefixFrom(s, n, i) ==
    IF n = 0 \/ i > Len(s) THEN [ok |-> n = 0, str |-> ""]
    ELSE LET w == IF CharAt(s, i) \in TwoByteChars THEN 2 ELSE 1
         IN  IF w > n THEN [ok |-> FALSE, str |-> ""]
             ELSE LET rest == BytePrefixFrom(s, n - w, i + 1)
                  IN  [ok |-> rest.ok, str |-> CharAt(s, i) \o rest.str]

\* str::len, in bytes
RECURSIVE ByteLenFrom(_, _)
ByteLenFrom(s, i) ==
    IF i > Len(s) THEN 0
    ELSE (IF CharAt(s, i) \in TwoByteChars THEN 2 ELSE 1) + ByteLenFrom(s, i + 1)

ByteLen(s) == ByteLenFrom(s, 1)

(***************************************************************************)
(* Document fetcher: denylist and URL clean-up.                            *)
(***************************************************************************)
BAD_URLS == <<"://g.co/", "viaf.org/", "wmflabs.org", "www.google.com", "toolforge.org">>

\* A validation that lets every URL through
ValidateUrlAlways(url) == TRUE

\* validate_url: TRUE for Ok(()), FALSE for Err("Bad URL")
ValidateUrl(url) == \A i \in 1..Len(BAD_URLS) : ~Contains(url, BAD_URLS[i])

\* The URL load_contents_from_url requests
CleanUrl(url) == ReplaceAll(Trim(ReplaceAll(url, "&amp;", "&")), " ", "%20")

(***************************************************************************)
(* html2text                                                               *)
(***************************************************************************)
\* <!--.*?-->
CommentLen(s, i) ==
    IF ~StartsWithAt(s, "<!--", i) THEN 0
    ELSE LET j == IndexOfFrom(s, "-->", i + 4)
         IN  IF j = 0 \/ ~NoNewline(s, i + 4, j - 1) THEN 0 ELSE j + 3 - i

\* </(p|div|br)>
ClosingTagLen(s, i) ==
    IF StartsWithAt(s, "</p>", i) THEN 4
    ELSE IF StartsWithAt(s, "</div>", i) THEN 6
    ELSE IF StartsWithAt(s, "</br>", i) THEN 5
    ELSE 0

\* <br\s*/>
BrLen(s, i) ==
    IF ~StartsWithAt(s, "<br", i) THEN 0
    ELSE LET w == RunLen(s, WhiteChars, i + 3)
         IN  IF StartsWithAt(s, "/>", i + 3 + w) THEN 5 + w ELSE 0

\* <.+?>
TagLen(s, i) ==
    IF CharAt(s, i) # "<" THEN 0
    ELSE LET j == IndexOfFrom(s, ">", i + 2)
         IN  IF j = 0 \/ ~NoNewline(s, i + 1, j - 1) THEN 0 ELSE j + 1 - i

ReplaceRegex(s, Lens, to) == ReplaceByLens(s, Lens, to, 1)

\* Everything after the first ">" that follows "<body"
AfterBodyOpen(s) ==
    LET b == IndexOf(s, "<body")
    IN  IF b = 0 THEN s
        ELSE LET c == IndexOfFrom(s, ">", b)
             IN  IF c = 0 THEN s ELSE SubSeq(s, c + 1, Len(s))

\* Everything before "</body>"
BeforeBodyClose(s) ==
    LET e == IndexOf(s, "</body>")
    IN  IF e = 0 THEN s ELSE SubSeq(s, 1, e - 1)

\* The regex replace_all steps of html2text, in source order
CommentRegex(s) == ReplaceRegex(s, [i \in 1..Len(s) |-> CommentLen(s, i)], " ")
PDivBrRegex(s) == ReplaceRegex(s, [i \in 1..Len(s) |-> ClosingTagLen(s, i)], "\n")
BrRegex(s) == ReplaceRegex(s, [i \in 1..Len(s) |-> BrLen(s, i)], "\n")
TagRegex(s) == ReplaceRegex(s, [i \in 1..Len(s) |-> TagLen(s, i)], " ")
WhitespaceRegex(s) ==
    ReplaceRegex(s, [i \in 1..Len(s) |-> RunLen(s, {"\r", "\t", " "}, i)], " ")
NewlinesRegex(s) == ReplaceRegex(s, [i \in 1..Len(s) |-> RunLen(s, {"\n"}, i)], "\n")
SpacesRegex(s) == ReplaceRegex(s, [i \in 1..Len(s) |-> RunLen(s, {" "}, i)], " ")

Html2Text(html) ==
    SpacesRegex(NewlinesRegex(
        ReplaceAll(ReplaceAll(
            WhitespaceRegex(TagRegex(BrRegex(PDivBrRegex(CommentRegex(
                BeforeBodyClose(AfterBodyOpen(ReplaceAll(html, "\n", " ")))))))),
            " \n", "\n"), "\n ", "\n")))

(***************************************************************************)
(* guess_page_language_from_text.  Every pattern is \b(w1|w2|...)\b over   *)
(* word characters only, so find_iter counts the words of the text that    *)
(* are in the list.  The counts sit in a HashMap, whose iteration order is *)
(* not fixed: the result is one of GuessPageLanguages(text).               *)
(***************************************************************************)
\* The words of a text: its maximal runs of word characters
RECURSIVE WordsFrom(_, _)
WordsFrom(s, i) ==
    IF i > Len(s) THEN <<>>
    ELSE LET n == RunLen(s, WordChars, i)
         IN  IF n = 0 THEN WordsFrom(s, i + 1)
             ELSE <<SubSeq(s, i, i + n - 1)>> \o WordsFrom(s, i + n)

Words(s) == WordsFrom(s, 1)

Languages == {"en", "de", "it", "fr", "es"}

FunctionWords(language) ==
    CASE language = "en" -> {"he", "she", "it", "is", "was", "the", "a", "an"}
      [] language = "de" -> {"er", "sie", "es", "das", "ein", "eine", "war", "ist"}
      [] language = "it" -> {"è", "una", "della", "la", "nel", "si", "su", "di"}
      [] language = "fr" -> {"est", "un", "une", "et", "la", "il", "a", "de", "par"}
      [] language = "es" -> {"el", "es", "un", "de", "a", "la", "conlas", "dos"}

LanguageCounts(text) ==
    LET w == Words(text)
    IN  [l \in Languages |-> Cardinality({i \in 1..Len(w) : w[i] \in FunctionWords(l)})]

\* The orders in which the HashMap of counts can be iterated
LanguageOrders == {o \in [1..5 -> Languages] : \A i, j \in 1..5 : i # j => o[i] # o[j]}

LanguageFloor == 5

RECURSIVE GuessFold(_, _, _, _, _)
GuessFold(counts, order, i, best, ret) ==
    IF i > Len(order) THEN ret
    ELSE IF counts[order[i]] <= best THEN GuessFold(counts, order, i + 1, best, ret)
    ELSE GuessFold(counts, order, i + 1, counts[order[i]], order[i])

GuessPageLanguages(text) ==
    LET counts == LanguageCounts(text)
    IN  {GuessFold(counts, o, 1, LanguageFloor, "en") : o \in LanguageOrders}

(***************************************************************************)
(* Pattern generator: get_statement_search_patterns and                    *)
(* add_locale_specific_dates.                                              *)
(***************************************************************************)
DigitChars == CharsOf(Digits)

IsDigitAt(s, i) == i >= 1 /\ i <= Len(s) /\ CharAt(s, i) \in DigitChars

\* A parse whose year keeps its leading zeros
ParseTimeKeepZeros(t) ==
    LET s0 == IF Len(t) > 0 /\ CharAt(t, 1) \in {"+", "-"} THEN 2 ELSE 1
        n  == RunLen(t, DigitChars, s0)
        e  == s0 + n
    IN  IF /\ n >= 1
           /\ StartsWithAt(t, "-", e)
           /\ IsDigitAt(t, e + 1) /\ IsDigitAt(t, e + 2)
           /\ StartsWithAt(t, "-", e + 3)
           /\ IsDigitAt(t, e + 4) /\ IsDigitAt(t, e + 5)
        THEN [ok |-> TRUE, year |-> SubSeq(t, s0, e - 1),
              month |-> SubSeq(t, e + 1, e + 2), day |-> SubSeq(t, e + 4, e + 5)]
        ELSE [ok |-> FALSE, year |-> "", month |-> "", day |-> ""]

\* ^[+-]{0,1}0*(\d+)-(\d\d)-(\d\d): 0* is greedy but leaves \d+ one digit
ParseTime(t) ==
    LET s0 == IF Len(t) > 0 /\ CharAt(t, 1) \in {"+", "-"} THEN 2 ELSE 1
        n  == RunLen(t, DigitChars, s0)
        e  == s0 + n
        digits == SubSeq(t, s0, e - 1)
        zeros  == Min(RunLen(digits, {"0"}, 1), n - 1)
    IN  IF /\ n >= 1
           /\ StartsWithAt(t, "-", e)
           /\ IsDigitAt(t, e + 1) /\ IsDigitAt(t, e + 2)
           /\ StartsWithAt(t, "-", e + 3)
           /\ IsDigitAt(t, e + 4) /\ IsDigitAt(t, e + 5)
        THEN [ok |-> TRUE, year |-> SubSeq(digits, zeros + 1, n),
              month |-> SubSeq(t, e + 1, e + 2), day |-> SubSeq(t, e + 4, e + 5)]
        ELSE [ok |-> FALSE, year |-> "", month |-> "", day |-> ""]

MonthNamesEn == <<"January", "February", "March", "April", "May", "June", "July",
                  "August", "September", "October", "November", "December">>
MonthNamesDe == <<"Januar", "Februar", "März", "April", "Mai", "Juni", "Juli",
                  "August", "September", "Oktober", "November", "Dezember">>
MonthNamesFr == <<"janvier", "février", "mars", "avril", "mai", "juin", "juillet",
                  "août", "septembre", "octobre", "novembre", "décembre">>

\* month_names.get(month_num as usize).unwrap_or(&""); entry 0 is ""
MonthName(names, month_num) ==
    IF month_num >= 1 /\ month_num <= Len(names) THEN names[month_num] ELSE ""

\* An abbreviation of four bytes
ShortMonthFour(long_month) == BytePrefixFrom(long_month, Min(4, ByteLen(long_month)), 1).str

\* &long_month[0..min(3, long_month.len())]
ShortMonth(long_month) == BytePrefixFrom(long_month, Min(3, ByteLen(long_month)), 1).str

\* The patterns add_locale_specific_dates pushes, in order
LocaleSpecificDates(language, year, month_num, day_num) ==
    LET d    == ToString(day_num)
        m    == ToString(month_num)
        d2   == Pad2(day_num)
        m2   == Pad2(month_num)
        iso  == <<year \o "-" \o m2 \o "-" \o d2>>
    IN  CASE language = "en" ->
               LET long == MonthName(MonthNamesEn, month_num)
               IN  iso \o <<long \o " " \o d \o ", " \o year,
                            ShortMonth(long) \o " " \o d \o ", " \o year>>
          [] language = "de" ->
               LET long  == MonthName(MonthNamesDe, month_num)
                   short == ShortMonth(long)
               IN  iso \o <<d \o ". " \o long \o " " \o year,
                            d \o ". " \o short \o " " \o year,
                            d2 \o ". " \o long \o " " \o year,
                            d2 \o ". " \o short \o " " \o year,
                            d \o ". " \o m \o ". " \o year,
                            d \o "." \o m \o "." \o year,
                            d2 \o ". " \o m2 \o ". " \o year,
                            d2 \o "." \o m2 \o "." \o year>>
          [] language = "fr" ->
               iso \o <<d \o " " \o MonthName(MonthNamesFr, month_num) \o " " \o year>>
          [] OTHER ->
               iso \o <<d \o ". " \o m \o ". " \o year,
                        d \o "." \o m \o "." \o year,
                        d \o "/" \o m \o "/" \o year,
                        d2 \o ". " \o m2 \o ". " \o year,
                        d2 \o "." \o m2 \o "." \o year,
                        d2 \o "/" \o m2 \o "/" \o year>>

\* DataValueType::Time branch
TimePatterns(value, language) ==
    LET t == ParseTime(value.time)
    IN  IF ~t.ok THEN <<>>
        ELSE IF value.precision = 9 THEN <<t.year>>
        ELSE IF value.precision = 11
             THEN <<t.year \o "-" \o t.month \o "-" \o t.day>>
                  \o LocaleSpecificDates(language, t.year, ParseNat(t.month), ParseNat(t.day))
        ELSE <<>>

\* regex::escape
RegexMeta == CharsOf("\\.+*?()|[]{}^$#&-~")

RECURSIVE RegexEscapeFrom(_, _)
RegexEscapeFrom(s, i) ==
    IF i > Len(s) THEN ""
    ELSE (IF CharAt(s, i) \in RegexMeta THEN "\\" ELSE "") \o CharAt(s, i)
         \o RegexEscapeFrom(s, i + 1)

RegexEscape(s) == RegexEscapeFrom(s, 1)

\* The values of the terms of `terms` in `language`, in order
ValuesIn(terms, language) ==
    LET hits == SelectSeq(terms, LAMBDA t : t.language = language)
    IN  [i \in 1..Len(hits) |-> hits[i].value]

FirstOf(s) == IF s = <<>> THEN <<>> ELSE <<s[1]>>

MinAliasLen == 3

\* DataValueType::EntityId branch, once the linked entity vi is in the cache:
\* the "mul" label, the label, then the aliases; escaped; short ones dropped
EntityPatterns(vi, language) ==
    LET aliases == FirstOf(ValuesIn(vi.labels, "mul"))
                   \o FirstOf(ValuesIn(vi.labels, language))
                   \o ValuesIn(vi.aliases, language)
        quoted  == [i \in 1..Len(aliases) |-> RegexEscape(Trim(aliases[i]))]
    IN  SelectSeq(quoted, LAMBDA a : ~(ByteLen(a) < MinAliasLen))

(***************************************************************************)
(* Matcher: the regex \b(.{0,60})\b(PATTERN)\b(.{0,60})\b on a text.       *)
(* Patterns are the literals, "." and backslash escapes the model's        *)
(* statements produce.  The regex crate answers with the leftmost match    *)
(* and, from that start, the greedy choice of each group.                  *)
(***************************************************************************)
Window == 60

\* The gap where a match of pat[j..], begun after gap g, ends; -1 for none
RECURSIVE PatternEnd(_, _, _, _)
PatternEnd(text, g, pat, j) ==
    IF j > Len(pat) THEN g
    ELSE IF CharAt(pat, j) = "\\"
         THEN IF j + 1 <= Len(pat) /\ StartsWithAt(text, CharAt(pat, j + 1), g + 1)
              THEN PatternEnd(text, g + 1, pat, j + 2) ELSE -1
    ELSE IF g + 1 > Len(text) THEN -1
    ELSE IF CharAt(pat, j) = "."
         THEN IF CharAt(text, g + 1) # "\n"
              THEN PatternEnd(text, g + 1, pat, j + 1) ELSE -1
    ELSE IF CharAt(pat, j) = CharAt(text, g + 1)
         THEN PatternEnd(text, g + 1, pat, j + 1) ELSE -1

\* Gaps where \b(PATTERN)\b matches
Occurrences(text, pat) ==
    {q \in 0..Len(text) :
        /\ Boundary(text, q)
        /\ PatternEnd(text, q, pat, 1) >= 0
        /\ Boundary(text, PatternEnd(text, q, pat, 1))}

\* Gaps where \b(.{0,60}) can start so that it ends at gap q
WindowStarts(text, q) ==
    {p \in Max(0, q - Window)..q : Boundary(text, p) /\ NoNewline(text, p + 1, q)}

\* Gaps where (.{0,60})\b can end when it starts at gap e
WindowEnds(text, e) ==
    {r \in e..Min(Len(text), e + Window) : Boundary(text, r) /\ NoNewline(text, e + 1, r)}

SetMin(S) == CHOOSE x \in S : \A y \in S : x <= y
SetMax(S) == CHOOSE x \in S : \A y \in S : x >= y

\* re.captures(text): <<>> for None, else the one TextPart
Captures(text, pat) ==
    LET occ == Occurrences(text, pat)
    IN  IF occ = {} THEN <<>>
        ELSE LET p == SetMin(UNION {WindowStarts(text, q) : q \in occ})
                 q == SetMax({o \in occ : p \in WindowStarts(text, o)})
                 e == PatternEnd(text, q, pat, 1)
                 r == SetMax(WindowEnds(text, e))
             IN  <<[before       |-> SubSeq(text, p + 1, q),
                    regexp_match |-> SubSeq(text, q + 1, e),
                    after        |-> SubSeq(text, e + 1, r)]>>

(***************************************************************************)
(* The world of one request: the knowledge base and the web.  Entities,    *)
(* statements and pages are small but of the shapes the code branches on.  *)
(***************************************************************************)
\* wikibase::Value, as Option<DataValue>: <<>> is "no value"
NoValue == <<>>
StringValue(str) == <<[type |-> "string", s |-> str]>>
EntityValue(id) == <<[type |-> "entity", id |-> id]>>
TimeValue(time, precision) == <<[type |-> "time", time |-> time, precision |-> precision]>>

Snak(property, value) == [property |-> property, value |-> value]

Claim(id, property, datatype, value, references) ==
    [id |-> id, property |-> property, datatype |-> datatype, value |-> value,
     references |-> references]

TargetId == "Q1"

\* The statements the target entity may carry, in entity order
Templates ==
    <<Claim("Q1$1", "P31", "wikibase-item", EntityValue("Q16521"), <<>>),
      Claim("Q1$2", "P569", "time", TimeValue("+1990-05-17T00:00:00Z", 11), <<>>),
      Claim("Q1$3", "P19", "wikibase-item", EntityValue("Q64"), <<>>),
      Claim("Q1$4", "P214", "external-id", StringValue("X1"), <<>>),
      Claim("Q1$5", "P856", "url", StringValue("http://a.example/"), <<>>),
      Claim("Q1$6", "P973", "url", StringValue("http://b.example/"), <<>>),
      Claim("Q1$7", "P225", "string", StringValue("Foo"), <<>>),
      Claim("Q1$8", "P570", "time", TimeValue("+1990-00-00T00:00:00Z", 9),
            <<<<Snak("P854", StringValue("http://a.example/"))>>,
              <<Snak("P248", EntityValue("Q54919")), Snak("P214", StringValue("X1"))>>>>),
      Claim("Q1$9", "P227", "external-id", StringValue("X1"), <<>>)>>

Sitelink(site, title) == [site |-> site, title |-> title]

\* The sitelink lists the target entity may carry
SitelinkOptions ==
    {<<>>,
     <<Sitelink("enwiki", "Foo")>>,
     <<Sitelink("commonswiki", "Category:Foo"), Sitelink("dewiki", "Foo Bar"),
       Sitelink("enwiki", "Foo")>>}

Term(language, value) == [language |-> language, value |-> value]

\* The other entities of the knowledge base: linked items and properties
EntityData(id) ==
    CASE id = "Q64" ->
           [labels  |-> <<Term("de", "Berlin"), Term("en", "Berlin")>>,
            aliases |-> <<Term("en", " B "), Term("en", "Berlin, Germany")>>,
            claims  |-> <<>>]
      [] id = "P214" ->
           [labels  |-> <<Term("en", "VIAF ID")>>,
            aliases |-> <<>>,
            claims  |-> <<Claim("P214$1", "P1630", "string",
                                StringValue("https://id.example/$1"), <<>>),
                          Claim("P214$2", "P9073", "wikibase-item",
                                EntityValue("Q54919"), <<>>)>>]
      [] id = "P227" ->
           [labels  |-> <<Term("en", "GND ID")>>,
            aliases |-> <<>>,
            claims  |-> <<Claim("P227$1", "P1630", "string",
                                StringValue("https://id.example/$1"), <<>>)>>]
      [] OTHER -> [labels |-> <<>>, aliases |-> <<>>, claims |-> <<>>]

\* The external links a wiki's API lists for a page: the "*" values of the
\* extlinks array of the JSON body, in document order
ExtLinks(site, title) ==
    CASE site = "enwiki" /\ title = "Foo" ->
           <<"http://a.example/", "https://id.example/X1", "http://a.example/",
             "https://de.wikipedia.org/wiki/Foo", "https://www.google.com/x">>
      [] site = "dewiki" /\ title = "Foo Bar" ->
           <<"http://a.example/", "ftp://c.example/", "https://viaf.org/viaf/X1",
             "http://c.example/">>
      [] OTHER -> <<>>

\* The body a URL answers with when the request succeeds
WebBody(url) ==
    CASE url = "http://a.example/" -> "<p>born on May 17, 1990 in Berlin, Germany</p>"
      [] url = "https://id.example/X1" -> "<b>Foo</b> 1990-05-17"
      [] url = "http://b.example/" -> "<body>Foo 1990, 1990-05-17T0 http://b.example/x</body>"
      [] url = "http://c.example/" -> "Foo died in 1990<br/>"
      [] url = "http://www.invaluable.com/a" -> "<p>Foo (Berlin) 1990-05-17</p>"
      [] OTHER -> ""

\* The entities the knowledge base is asked for
KbIds == {"Q1", "Q64", "Q16521", "P214", "P227"}

\* The URLs that answer with a body
WebUrls == {"http://a.example/", "https://id.example/X1", "http://b.example/",
            "http://c.example/", "http://www.invaluable.com/a"}

(***************************************************************************)
(* Entity accessors (wikibase crate) as the referee uses them.             *)
(***************************************************************************)
\* Referee::new
NoRefsForProperties == {"P225", "P373", "P1472", "P1889"}

UnsupportedEntityMarkers ==
    <<<<"P31", "Q13442814">>, <<"P31", "Q16521">>, <<"P31", "Q4167836">>,
      <<"P31", "Q4167410">>, <<"P31", "Q5296">>>>

\* Entity::has_target_entity
HasTargetEntity(claims, property, target) ==
    \E i \in 1..Len(claims) :
        /\ claims[i].property = property
        /\ claims[i].value # NoValue
        /\ claims[i].value[1].type = "entity"
        /\ claims[i].value[1].id = target

\* A check that knows no excluded type
IsSupportedAlways(claims) == TRUE

\* is_supported_entity, once the entity is in the cache
IsSupported(claims) ==
    \A i \in 1..Len(UnsupportedEntityMarkers) :
        ~HasTargetEntity(claims, UnsupportedEntityMarkers[i][1], UnsupportedEntityMarkers[i][2])

\* A selector that lets every statement through
StatementsNeedingReferencesAll(claims) == claims

\* A selector that passes over external ids only
StatementsNeedingReferencesWithMedia(claims) ==
    SelectSeq(claims, LAMBDA c :
        /\ c.property \notin NoRefsForProperties
        /\ c.datatype # "external-id")

\* get_statements_needing_references, once the entity is in the cache
StatementsNeedingReferences(claims) ==
    SelectSeq(claims, LAMBDA c :
        /\ c.property \notin NoRefsForProperties
        /\ c.datatype \notin {"external-id", "commonsMedia"})

\* get_string_values_for_property
StringValuesForProperty(claims, property) ==
    LET hits == SelectSeq(claims, LAMBDA c :
                    /\ c.property = property
                    /\ c.value # NoValue
                    /\ c.value[1].type = "string")
    IN  [i \in 1..Len(hits) |-> hits[i].value[1].s]

\* Vec<String>::sort and ::dedup
InsertStr(s, x) ==
    LET k == Cardinality({i \in 1..Len(s) : StrCmp(s[i], x) <= 0})
    IN  SubSeq(s, 1, k) \o <<x>> \o SubSeq(s, k + 1, Len(s))

RECURSIVE SortStrFrom(_, _)
SortStrFrom(done, rest) ==
    IF rest = <<>> THEN done
    ELSE SortStrFrom(InsertStr(done, Head(rest)), Tail(rest))

SortStr(s) == SortStrFrom(<<>>, s)

\* Vec<(String, String)>::sort: pairs order by first, then second
InsertPair(s, x) ==
    LET k == Cardinality({i \in 1..Len(s) :
                 Then(StrCmp(s[i][1], x[1]), StrCmp(s[i][2], x[2])) <= 0})
    IN  SubSeq(s, 1, k) \o <<x>> \o SubSeq(s, k + 1, Len(s))

RECURSIVE SortPairsFrom(_, _)
SortPairsFrom(done, rest) ==
    IF rest = <<>> THEN done
    ELSE SortPairsFrom(InsertPair(done, Head(rest)), Tail(rest))

SortPairs(s) == SortPairsFrom(<<>>, s)

(***************************************************************************)
(* Candidate URL collector: pure parts.                                    *)
(***************************************************************************)
\* get_web_server_for_wiki: parts[0] of wiki.split("wik"), then the family
WebServerForWiki(wiki) ==
    LET k    == IndexOf(wiki, "wik")
        lang == IF k = 0 THEN wiki ELSE SubSeq(wiki, 1, k - 1)
    IN  IF EndsWith(wiki, "wiki") THEN lang \o ".wikipedia.org"
        ELSE IF EndsWith(wiki, "wikisource") THEN lang \o ".wikisource.org"
        ELSE IF EndsWith(wiki, "wiktionary") THEN lang \o ".wiktionary.org"
        ELSE IF EndsWith(wiki, "wikiquote") THEN lang \o ".wikiquote.org"
        ELSE lang \o ".wikipedia.org"

\* The extlinks query URL of one sitelink
ListingUrl(sitelink) ==
    "https://" \o WebServerForWiki(sitelink.site)
    \o "/w/api.php?action=query&prop=extlinks&ellimit=500&elexpandurl=1&format=json&titles="
    \o ReplaceAll(sitelink.title, " ", "_")

\* wiki_page_to_load: the sitelinks whose title holds no ':'
WikiPagesToLoad(sitelinks) == SelectSeq(sitelinks, LAMBDA sl : ~Contains(sl.title, ":"))

\* RE_WIKI: \b(wikipedia|wikimedia|wik[a-z-]+)\.org/
IsWikiUrl(url) ==
    \E g \in 0..Len(url) :
        /\ Boundary(url, g)
        /\ \/ StartsWithAt(url, "wikipedia.org/", g + 1)
           \/ StartsWithAt(url, "wikimedia.org/", g + 1)
           \/ /\ StartsWithAt(url, "wik", g + 1)
              /\ LET n == RunLen(url, CharsOf("abcdefghijklmnopqrstuvwxyz-"), g + 4)
                 IN  \E k \in 1..n : StartsWithAt(url, ".org/", g + 4 + k)

\* generate_url_candidates_for_wiki_page: had_url is local to one page
RECURSIVE PageCandidatesFrom(_, _, _)
PageCandidatesFrom(links, i, candidates) ==
    IF i > Len(links) THEN candidates
    ELSE IF \/ ~StartsWith(links[i], "http")
            \/ IsWikiUrl(links[i])
            \/ \E j \in 1..Len(candidates) : candidates[j] = links[i]
         THEN PageCandidatesFrom(links, i + 1, candidates)
         ELSE PageCandidatesFrom(links, i + 1, Append(candidates, links[i]))

PageCandidates(links) == PageCandidatesFrom(links, 1, <<>>)

\* Concatenation of a sequence of sequences (Iterator::flatten)
RECURSIVE Flatten(_)
Flatten(ss) == IF ss = <<>> THEN <<>> ELSE Head(ss) \o Flatten(Tail(ss))

\* Every URL this world can come to fetch a page from
KnownUrls ==
    WebUrls \cup UNION {UNION {{ExtLinks(sl[i].site, sl[i].title)[j] :
                                   j \in 1..Len(ExtLinks(sl[i].site, sl[i].title))} :
                               i \in 1..Len(sl)} :
                        sl \in SitelinkOptions}

\* validate_url, the URL clean-up, html2text and the language guess on this
\* world's URLs, bodies and texts, each computed once
ListingUrls == UNION {{ListingUrl(sl[i]) : i \in 1..Len(sl)} : sl \in SitelinkOptions}
ValidateUrlTable == [u \in KnownUrls \cup ListingUrls |-> ValidateUrl(u)]
ValidateUrlOf(url) ==
    IF url \in KnownUrls \/ url \in ListingUrls THEN ValidateUrlTable[url] ELSE ValidateUrl(url)

CleanUrlTable == [u \in KnownUrls |-> CleanUrl(u)]
CleanUrlOf(url) == IF url \in KnownUrls THEN CleanUrlTable[url] ELSE CleanUrl(url)

Html2TextTable == [u \in WebUrls |-> Html2Text(WebBody(u))]
Html2TextOf(url, html) ==
    IF url \in WebUrls /\ html = WebBody(url) THEN Html2TextTable[url] ELSE Html2Text(html)

GuessTable == [u \in WebUrls |-> GuessPageLanguages(Html2TextTable[u])]
GuessPageLanguagesOf(url, text) ==
    IF url \in WebUrls /\ text = Html2TextTable[url] THEN GuessTable[url]
    ELSE GuessPageLanguages(text)

FetchOutcomes == {"send_error", "bad_status", "no_content_type", "ok"}

Err == [ok |-> FALSE, val |-> ""]
Ok(v) == [ok |-> TRUE, val |-> v]

\* load_contents_from_url, given how the request ends and the body it would carry
LoadContentsFromUrl(url, outcome, body) ==
    IF ~ValidateUrlOf(url) THEN Err
    ELSE IF outcome = "send_error" THEN Err
    ELSE IF outcome = "bad_status" THEN Ok("")
    ELSE IF outcome = "no_content_type" THEN Ok("")
    ELSE Ok(body)

\* A fetcher that hands on a text of its own when the request fails
GetContentsFromUrlErrorText(url, outcome, body) ==
    LET r == LoadContentsFromUrl(url, outcome, body)
    IN  IF r.ok THEN r.val ELSE "error"

\* get_contents_from_url: unwrap_or_default
GetContentsFromUrl(url, outcome, body) ==
    LET r == LoadContentsFromUrl(url, outcome, body)
    IN  IF r.ok THEN r.val ELSE ""

UrlCandidate(url, url_type, property, external_id, language, text) ==
    [url |-> url, url_type |-> url_type, property |-> property,
     external_id |-> external_id, stated_in |-> None, language |-> language,
     text |-> text]

\* One fetch future: `sent` tells whether an HTTP request was issued,
\* `failed` whether load_contents_from_url came to nothing, and `got` holds
\* what the future resolved to (<<>>: nothing yet, or None)
Slot(url, extra) ==
    [url |-> url, sent |-> ValidateUrlOf(url),
     state |-> IF ValidateUrlOf(url) THEN "pending" ELSE "done",
     failed |-> ~ValidateUrlOf(url),
     got |-> <<>>, extra |-> extra]

AllDone(slots) == \A i \in 1..Len(slots) : slots[i].state = "done"

\* The values the finished futures resolved to, None dropped (flatten)
Gathered(slots) == Flatten([i \in 1..Len(slots) |-> slots[i].got])

\* get_candidate_urls_from_wikis up to its first join_all
ListingSlots(sitelinks) ==
    LET pages == WikiPagesToLoad(sitelinks)
    IN  [i \in 1..Len(pages) |-> Slot(ListingUrl(pages[i]), pages[i])]

\* ... from the first join_all to the third
PageSlots(listing) ==
    LET wiki_pages     == Gathered(listing)
        candidate_urls == Flatten([i \in 1..Len(wiki_pages) |-> PageCandidates(wiki_pages[i])])
    IN  [i \in 1..Len(candidate_urls) |-> Slot(candidate_urls[i], "")]

\* get_direct_websites up to its join_all
WebsiteSlots(claims) ==
    LET websites == Dedup(SortStr(StringValuesForProperty(claims, "P856")
                                  \o StringValuesForProperty(claims, "P973")))
    IN  [i \in 1..Len(websites) |-> Slot(websites[i], "")]

\* get_candidates_for_external_ids: prop_id, sorted and deduplicated
PropIds(claims) ==
    LET ext == SelectSeq(claims, LAMBDA c :
                   /\ c.datatype = "external-id"
                   /\ c.value # NoValue
                   /\ c.value[1].type = "string")
    IN  Dedup(SortPairs([i \in 1..Len(ext) |-> <<ext[i].property, ext[i].value[1].s>>]))

PropIdProperties(claims) ==
    LET pi == PropIds(claims)
    IN  Dedup(SortStr([i \in 1..Len(pi) |-> pi[i][1]]))

\* ... after load_entities: one future per distinct formatter URL
RECURSIVE FormatterSlotsFrom(_, _, _, _)
FormatterSlotsFrom(prop_id, i, ch, slots) ==
    IF i > Len(prop_id) THEN slots
    ELSE LET property     == prop_id[i][1]
             external_id  == prop_id[i][2]
             formatter_urls ==
                 IF property \in ch
                 THEN StringValuesForProperty(EntityData(property).claims, "P1630")
                 ELSE <<>>
         IN  IF formatter_urls = <<>>
             THEN FormatterSlotsFrom(prop_id, i + 1, ch, slots)
             ELSE LET url == ReplaceAll(formatter_urls[1], "$1", external_id)
                  IN  IF \E j \in 1..Len(slots) : slots[j].url = url
                      THEN FormatterSlotsFrom(prop_id, i + 1, ch, slots)
                      ELSE FormatterSlotsFrom(prop_id, i + 1, ch,
                               Append(slots, Slot(url, <<property, external_id>>)))

FormatterSlots(claims, ch) == FormatterSlotsFrom(PropIds(claims), 1, ch, <<>>)

\* .map(|uc| (uc.url.clone(), uc)): the entries a strategy collects
Keyed(ucs) == [i \in 1..Len(ucs) |-> [key |-> ucs[i].url, value |-> ucs[i]]]

\* HashMap::values, in iteration order
Values(m) == [i \in 1..Len(m) |-> m[i].value]

\* A map that keeps both entries when a key comes twice
MapInsertKeepBoth(m, entry) == Append(m, entry)

\* A map in which a key already present keeps its first value
MapInsertKeepFirst(m, entry) ==
    IF \E i \in 1..Len(m) : m[i].key = entry.key THEN m ELSE Append(m, entry)

\* HashMap::insert on a map kept as a sequence of entries with distinct keys:
\* a key already present keeps its place and takes the new value
MapInsert(m, entry) ==
    IF \E i \in 1..Len(m) : m[i].key = entry.key
    THEN [i \in 1..Len(m) |-> IF m[i].key = entry.key
                               THEN [m[i] EXCEPT !.value = entry.value] ELSE m[i]]
    ELSE Append(m, entry)

\* Iterator::collect into a HashMap
RECURSIVE CollectFrom(_, _)
CollectFrom(m, entries) ==
    IF entries = <<>> THEN m ELSE CollectFrom(MapInsert(m, Head(entries)), Tail(entries))

Collect(entries) == CollectFrom(<<>>, entries)

\* add_stated_in_to_url_candidate
StatedIn(uc, ch) ==
    IF uc.property = None \/ uc.property[1] \notin ch THEN None
    ELSE LET claims == SelectSeq(EntityData(uc.property[1]).claims,
                                 LAMBDA c : c.property = "P9073")
         IN  IF claims = <<>> \/ claims[1].value = NoValue THEN None
             ELSE IF claims[1].value[1].type = "entity"
                  THEN Some(claims[1].value[1].id) ELSE None

\* add_stated_in: the properties it asks load_entities for
StatedInToLoad(m, ch) ==
    Dedup(SortStr(SelectSeq(Flatten([i \in 1..Len(m) |-> m[i].value.property]),
                            LAMBDA q : q \notin ch)))

\* add_stated_in: the map after the load
AddStatedIn(m, ch) ==
    [i \in 1..Len(m) |->
        IF StatedIn(m[i].value, ch) # None
        THEN [m[i] EXCEPT !.value.stated_in = StatedIn(m[i].value, ch)]
        ELSE m[i]]

\* A chain that takes the three maps in the opposite order
ChainedCandidatesReversed(c) ==
    Collect(Collect(Keyed(Gathered(c.formatter))) \o Collect(Keyed(Gathered(c.websites)))
            \o Collect(Keyed(Gathered(c.pages))))

\* get_candidate_urls: the three strategies' maps chained and collected
ChainedCandidates(c) ==
    Collect(Collect(Keyed(Gathered(c.pages))) \o Collect(Keyed(Gathered(c.websites)))
            \o Collect(Keyed(Gathered(c.formatter))))

\* The arrangements of the elements of S in a row
RECURSIVE Arrangements(_)
Arrangements(S) ==
    IF S = {} THEN {<<>>}
    ELSE UNION {{<<x>> \o rest : rest \in Arrangements(S \ {x})} : x \in S}

\* The orders in which a HashMap can be iterated
Orderings(m) == {[i \in 1..Len(m) |-> m[f[i]]] : f \in Arrangements(1..Len(m))}

(***************************************************************************)
(* Matcher: process_statement.                                             *)
(***************************************************************************)
SnaksHold(reference, property, str) ==
    \E k \in 1..Len(reference) :
        /\ reference[k].property = property
        /\ reference[k].value # NoValue
        /\ reference[k].value[1].type = "string"
        /\ reference[k].value[1].s = str

\* A check that never finds the reference
DoesStatementHaveThisReferenceNever(statement, url_candidate) == FALSE

\* does_statement_have_this_reference
DoesStatementHaveThisReference(statement, url_candidate) ==
    \E r \in 1..Len(statement.references) :
        \/ SnaksHold(statement.references[r], "P854", url_candidate.url)
        \/ /\ url_candidate.url_type = "ExternalId"
           /\ url_candidate.property # None
           /\ url_candidate.external_id # None
           /\ SnaksHold(statement.references[r], url_candidate.property[1],
                        url_candidate.external_id[1])

\* A matcher that passes over the cited candidates only
SkipsCandidateCited(statement, url_candidate) ==
    DoesStatementHaveThisReference(statement, url_candidate)

\* The candidates process_statement passes over without matching
SkipsCandidate(statement, url_candidate) ==
    \/ DoesStatementHaveThisReference(statement, url_candidate)
    \/ statement.property = "P27" /\ Contains(url_candidate.url, "www.invaluable.com")

IsEntityValued(statement) ==
    statement.value # NoValue /\ statement.value[1].type = "entity"

\* get_statement_search_patterns, with the entities of `ch` in the cache
StatementSearchPatterns(statement, language, ch) ==
    IF statement.property \in NoRefsForProperties \/ statement.value = NoValue THEN <<>>
    ELSE LET value == statement.value[1]
         IN  CASE value.type = "time" -> TimePatterns(value, language)
               [] value.type = "string" -> <<value.s>>
               [] value.type = "monolingual" -> <<value.text>>
               [] value.type = "entity" ->
                    IF value.id \in ch THEN EntityPatterns(EntityData(value.id), language)
                    ELSE <<>>
               [] OTHER -> <<>>

\* One pattern against the text: patterns that trim to nothing are passed over
PatternCapture(text, pat) == IF Trim(pat) = "" THEN <<>> ELSE Captures(text, pat)

\* The patterns of this world's statements and the captures of each pattern
\* in each text of this web, each computed once
LinkedAgain == Claim("Q1$10", "P20", "wikibase-item", EntityValue("Q64"), <<>>)
DeniedWebsite == Claim("Q1$11", "P856", "url", StringValue("https://www.google.com/x"), <<>>)
DeniedId == Claim("Q1$12", "P214", "external-id", StringValue("viaf.org/1"), <<>>)
Media == Claim("Q1$13", "P18", "commonsMedia", StringValue("Foo.jpg"), <<>>)
Citizen == Claim("Q1$14", "P27", "wikibase-item", EntityValue("Q64"), <<>>)
Auction == Claim("Q1$15", "P856", "url", StringValue("http://www.invaluable.com/a"), <<>>)
KnownStatements ==
    {Templates[k] : k \in 1..Len(Templates)}
        \cup {LinkedAgain, DeniedWebsite, DeniedId, Media, Citizen, Auction}
PatternsTable ==
    [statement \in KnownStatements |-> [language \in Languages |-> [ch \in SUBSET KbIds |->
        StatementSearchPatterns(statement, language, ch)]]]
StatementSearchPatternsOf(statement, language, ch) ==
    IF statement \in KnownStatements /\ language \in Languages /\ ch \subseteq KbIds
    THEN PatternsTable[statement][language][ch]
    ELSE StatementSearchPatterns(statement, language, ch)

KnownTexts == {Html2TextTable[u] : u \in WebUrls}
KnownPatterns ==
    UNION {{PatternsTable[s][l][ch][i] : i \in 1..Len(PatternsTable[s][l][ch])} :
              s \in KnownStatements, l \in Languages, ch \in SUBSET KbIds}
CapturesTable == [text \in KnownTexts |-> [pat \in KnownPatterns |-> PatternCapture(text, pat)]]
PatternCaptureOf(text, pat) ==
    IF text \in KnownTexts /\ pat \in KnownPatterns THEN CapturesTable[text][pat]
    ELSE PatternCapture(text, pat)

\* The captures of the patterns in the text, pattern by pattern
PatternCaptures(text, patterns) ==
    [i \in 1..Len(patterns) |-> PatternCaptureOf(text, patterns[i])]

NewCucs(statement_id, url_candidate, caps) ==
    [i \in 1..Len(caps) |-> NewCuc(statement_id, url_candidate, caps[i])]

\* A matcher that tries only the first pattern of the statement
CandidateRecordsFirstPattern(statement, url_candidate, ch) ==
    IF SkipsCandidate(statement, url_candidate) THEN <<>>
    ELSE NewCucs(statement.id, url_candidate,
                 Flatten(PatternCaptures(url_candidate.text,
                     SubSeq(StatementSearchPatternsOf(statement, url_candidate.language, ch),
                            1, 1))))

\* The records one candidate yields for a statement: one per matching pattern
CandidateRecords(statement, url_candidate, ch) ==
    IF SkipsCandidate(statement, url_candidate) THEN <<>>
    ELSE NewCucs(statement.id, url_candidate,
                 Flatten(PatternCaptures(url_candidate.text,
                     StatementSearchPatternsOf(statement, url_candidate.language, ch))))

\* process_statement's Ok value, url_candidates.values() iterating as `candidates`
StatementRecords(statement, candidates, ch) ==
    Flatten([i \in 1..Len(candidates) |-> CandidateRecords(statement, candidates[i], ch)])

\* Whether process_statement comes to await the load of a linked entity
NeedsLoad(statement, candidates, ch) ==
    /\ IsEntityValued(statement)
    /\ statement.property \notin NoRefsForProperties
    /\ statement.value[1].id \notin ch
    /\ \E i \in 1..Len(candidates) : ~SkipsCandidate(statement, candidates[i])

\* One process_statement future: awaiting the load of `entity` for the
\* candidate at index `at` of url_candidates.values(), or resolved
TaskLoading(entity, at) ==
    [state |-> "loading", entity |-> entity, at |-> at, ok |-> FALSE, records |-> <<>>]
TaskOk(records) == [state |-> "done", entity |-> "", at |-> 0, ok |-> TRUE, records |-> records]
TaskErr == [state |-> "done", entity |-> "", at |-> 0, ok |-> FALSE, records |-> <<>>]

\* The first candidate from index `from` on that process_statement does not
\* pass over; 0 if there is none
NextAwait(statement, candidates, from) ==
    LET open == {i \in from..Len(candidates) : ~SkipsCandidate(statement, candidates[i])}
    IN  IF open = {} THEN 0 ELSE CHOOSE i \in open : \A j \in open : i <= j

\* process_statement from candidate `from` on, up to its next await: with
\* the linked entity absent from the cache every candidate that is not
\* passed over asks for it again
TaskFrom(statement, candidates, ch, from) ==
    IF NeedsLoad(statement, SubSeq(candidates, from, Len(candidates)), ch)
    THEN TaskLoading(statement.value[1].id, NextAwait(statement, candidates, from))
    ELSE TaskOk(StatementRecords(statement, SubSeq(candidates, from, Len(candidates)), ch))

\* join_all over the statements, each future polled up to its first await
StartTasks(stmts, candidates, ch) ==
    [i \in 1..Len(stmts) |-> TaskFrom(stmts[i], candidates, ch, 1)]

\* What get_potential_references comes to
NoResult == [kind |-> "none", list |-> <<>>]
ResultOk(list) == [kind |-> "ok", list |-> list]
ResultErr == [kind |-> "err", list |-> <<>>]
ResultPanic == [kind |-> "panic", list |-> <<>>]

\* filter_map(|r| r.ok()).flatten().filter(property != Some("P973"))
RawRecords(ts) ==
    SelectSeq(Flatten([i \in 1..Len(ts) |-> IF ts[i].ok THEN ts[i].records ELSE <<>>]),
              LAMBDA r : r.property # Some("P973"))

\* A tail of get_potential_references that hands the records on unsorted
FinishUnsorted(ts) ==
    LET ret == MergeCucCandidates(RawRecords(ts))
    IN  IF ret.panicked THEN ResultPanic ELSE ResultOk(ret.list)

\* The tail of get_potential_references: collect, sort, merge
Finish(ts) ==
    LET ret == MergeCucCandidates(SortCuc(RawRecords(ts)))
    IN  IF ret.panicked THEN ResultPanic ELSE ResultOk(ret.list)

(***************************************************************************)
(* State.                                                                  *)
(***************************************************************************)
VARIABLES
    kb,          \* the target entity as the knowledge base holds it
    cache,       \* EntityContainer: the ids of the entities loaded so far
    loads,       \* how many requests the knowledge base got, per entity id
    pc,          \* where get_potential_references stands
    statements,  \* the statements needing references
    col,         \* get_candidate_urls: the three strategies and their fetch futures
    pool,        \* url_candidates: the entries of the map, in iteration order
    tasks,       \* the process_statement futures, one per statement
    result,      \* what get_potential_references came to
    input,       \* merger on its own: the raw records handed to it
    sorted,      \* ... after ret.sort()
    merged,      \* ... after merge_cuc_candidates
    remerged,    \* ... after sorting and merging the merged list again
    mpc,         \* ... and where that run stands
    fin,         \* a pure function on its own: the arguments handed to it
    fout,        \* ... what it returned
    fpc          \* ... and where that call stands

requestVars == <<kb, cache, loads, pc, statements, col, pool, tasks, result>>
mergeVars == <<input, sorted, merged, remerged, mpc>>
fnVars == <<fin, fout, fpc>>
vars == <<kb, cache, loads, pc, statements, col, pool, tasks, result,
          input, sorted, merged, remerged, mpc, fin, fout, fpc>>

\* Bounds of the model
MaxClaims == 2
MaxRaw == 3

\* How a load from the knowledge base can end: loaded, failed, or answered
\* without the entity (get_entity then finds nothing)
LoadOutcomes == {"ok", "err", "missing"}

\* The linked entities of the claims, and the knowledge bases over an entity:
\* each of them holds or lacks every linked entity for the whole request
LinkedIds(claims) ==
    {claims[i].value[1].id :
        i \in {k \in 1..Len(claims) : claims[k].value # NoValue
                                       /\ claims[k].value[1].type = "entity"}}
WithAbsent(entities) ==
    UNION {{[claims |-> e.claims, sitelinks |-> e.sitelinks, absent |-> ab] :
               ab \in SUBSET (LinkedIds(e.claims) \cap {"Q64"})} : e \in entities}

\* How the load of a linked entity can end in the knowledge base
EntityLoadOutcomes(id) == IF id \in kb.absent THEN {"err", "missing"} ELSE {"ok", "err"}

Worlds ==
    WithAbsent(
    {[claims    |-> SelectSeq(Templates, LAMBDA t : \E i \in S : Templates[i] = t),
      sitelinks |-> sl] :
        S \in {T \in SUBSET (1..Len(Templates)) : Cardinality(T) <= MaxClaims},
        sl \in SitelinkOptions})

IdleCol ==
    [wstage |-> "idle", listing |-> <<>>, pages |-> <<>>,
     dstage |-> "idle", websites |-> <<>>,
     estage |-> "idle", formatter |-> <<>>]

RequestIdle ==
    /\ cache = {}
    /\ loads = [id \in KbIds |-> 0]
    /\ pc = "start"
    /\ statements = <<>>
    /\ col = IdleCol
    /\ pool = <<>>
    /\ tasks = <<>>
    /\ result = NoResult

MergeIdle ==
    /\ input = <<>>
    /\ sorted = <<>>
    /\ merged = Returned(<<>>)
    /\ remerged = Returned(<<>>)

FnIdle ==
    /\ fin = <<>>
    /\ fout = <<>>
    /\ fpc = "off"

Init ==
    /\ kb \in Worlds
    /\ RequestIdle
    /\ MergeIdle
    /\ mpc = "off"
    /\ FnIdle

(***************************************************************************)
(* get_potential_references, step by step.  Every action runs the code     *)
(* from one await that suspends to the next.                               *)
(***************************************************************************)
\* The barriers of the collector: each stage starts when the one before it
\* has all its futures resolved
\* A collector that starts the page fetches at the first finished listing
AdvanceListingEager(c) ==
    IF c.wstage = "listing" /\ (c.listing = <<>> \/ \E i \in 1..Len(c.listing) : c.listing[i].state = "done")
    THEN [c EXCEPT !.wstage = "pages", !.pages = PageSlots(c.listing)] ELSE c

AdvanceListing(c) ==
    IF c.wstage = "listing" /\ AllDone(c.listing)
    THEN [c EXCEPT !.wstage = "pages", !.pages = PageSlots(c.listing)] ELSE c

AdvancePages(c) ==
    IF c.wstage = "pages" /\ AllDone(c.pages) THEN [c EXCEPT !.wstage = "done"] ELSE c

AdvanceWebsites(c) ==
    IF c.dstage = "fetch" /\ AllDone(c.websites) THEN [c EXCEPT !.dstage = "done"] ELSE c

AdvanceFormatter(c) ==
    IF c.estage = "fetch" /\ AllDone(c.formatter) THEN [c EXCEPT !.estage = "done"] ELSE c

Advance(c) == AdvanceFormatter(AdvanceWebsites(AdvancePages(AdvanceListing(c))))

Joined(c) == c.wstage = "done" /\ c.dstage = "done" /\ c.estage = "done"

AllTasksDone(ts) == \A i \in 1..Len(ts) : ts[i].state = "done"

Count(seq, x) == Cardinality({i \in 1..Len(seq) : seq[i] = x})

\* `loads` after the requests for the entities of `ids`
Requested(ld, ids) == [id \in KbIds |-> ld[id] + Count(ids, id)]

LoadingEntities(ts) ==
    SelectSeq([i \in 1..Len(ts) |-> ts[i].entity], LAMBDA id : id # "")

\* join_all over the process_statement futures, and the tail if none waits
Match(ts, ld) ==
    /\ tasks' = ts
    /\ loads' = Requested(ld, LoadingEntities(ts))
    /\ IF AllTasksDone(ts)
       THEN pc' = "done" /\ result' = Finish(ts)
       ELSE pc' = "matching" /\ result' = result

\* get_potential_references from the pool on
WithPool(order, ch, ld) ==
    /\ pool' = order
    /\ cache' = ch
    /\ IF order = <<>>
       THEN /\ pc' = "done"
            /\ result' = ResultOk(<<>>)
            /\ loads' = ld
            /\ UNCHANGED tasks
       ELSE Match(StartTasks(statements, Values(order), ch), ld)

\* add_stated_in: its load_entities either fails, and the request with it,
\* or brings every entity asked for
AddStatedInThen(ret, toLoad, ch, ld) ==
    \E loaded \in (IF toLoad = <<>> THEN {TRUE} ELSE BOOLEAN) :
        IF ~loaded
        THEN /\ pc' = "done"
             /\ result' = ResultErr
             /\ cache' = ch
             /\ loads' = ld
             /\ UNCHANGED <<pool, tasks>>
        ELSE \E order \in Orderings(AddStatedIn(ret, ch \cup {toLoad[i] : i \in 1..Len(toLoad)})) :
                WithPool(order, ch \cup {toLoad[i] : i \in 1..Len(toLoad)}, ld)

Chained(ret, ch, ld) ==
    AddStatedInThen(ret, StatedInToLoad(ret, ch), ch, Requested(ld, StatedInToLoad(ret, ch)))

\* The rest of get_candidate_urls and of get_potential_references once the
\* collector stands at c: join!, chain and collect, add_stated_in, then the
\* process_statement futures up to their first await, and the tail if none waits
Proceed(c, ch, ld) ==
    /\ col' = c
    /\ IF ~Joined(c)
       THEN /\ pc' = "collecting"
            /\ cache' = ch
            /\ loads' = ld
            /\ UNCHANGED <<pool, tasks, result>>
       ELSE Chained(ChainedCandidates(c), ch, ld)

\* is_supported_entity up to its await: the request for the target entity
\* is sent
IsSupportedEntity ==
    /\ pc = "start"
    /\ pc' = "target"
    /\ loads' = [loads EXCEPT ![TargetId] = @ + 1]
    /\ UNCHANGED <<kb, cache, statements, col, pool, tasks, result, mergeVars, fnVars>>

\* load_entity of is_supported_entity resolves, then the markers
CompleteTargetLoad ==
    /\ pc = "target"
    /\ \E outcome \in LoadOutcomes :
         /\ cache' = IF outcome = "ok" THEN cache \cup {TargetId} ELSE cache
         /\ IF outcome = "err" THEN pc' = "done" /\ result' = ResultErr
            ELSE IF outcome = "missing" \/ ~IsSupported(kb.claims)
                 THEN pc' = "done" /\ result' = ResultOk(<<>>)
                 ELSE pc' = "statements" /\ result' = result
    /\ UNCHANGED <<kb, loads, statements, col, pool, tasks, mergeVars, fnVars>>

\* get_statements_needing_references (the entity is cached: no request)
GetStatementsNeedingReferences ==
    /\ pc = "statements"
    /\ statements' = StatementsNeedingReferences(kb.claims)
    /\ IF statements' = <<>>
       THEN pc' = "done" /\ result' = ResultOk(<<>>)
       ELSE pc' = "candidates" /\ result' = result
    /\ UNCHANGED <<kb, cache, loads, col, pool, tasks, mergeVars, fnVars>>

\* get_candidate_urls up to the first awaits of its three futures
GetCandidateUrls ==
    /\ pc = "candidates"
    /\ LET props  == PropIdProperties(kb.claims)
           toLoad == SelectSeq(props, LAMBDA q : q \notin cache)
           c0     == [wstage    |-> "listing",
                      listing   |-> ListingSlots(kb.sitelinks),
                      pages     |-> <<>>,
                      dstage    |-> "fetch",
                      websites  |-> WebsiteSlots(kb.claims),
                      estage    |-> IF toLoad = <<>> THEN "fetch" ELSE "props",
                      formatter |-> IF toLoad = <<>> THEN FormatterSlots(kb.claims, cache)
                                    ELSE <<>>]
       IN  IF kb.claims = <<>>
           THEN /\ pc' = "done"
                /\ result' = ResultOk(<<>>)
                /\ UNCHANGED <<cache, loads, col, pool, tasks>>
           ELSE Proceed(Advance(c0), cache, Requested(loads, toLoad))
    /\ UNCHANGED <<kb, statements, mergeVars, fnVars>>

\* load_json_from_url resolves.  The JSON body is modelled by the extlinks
\* it lists; an empty response does not parse
ListingResults(slot, outcome) ==
    IF GetContentsFromUrl(slot.url, outcome, "{}") = "" THEN None
    ELSE Some(ExtLinks(slot.extra.site, slot.extra.title))

CompleteListingFetch ==
    /\ pc = "collecting"
    /\ \E i \in 1..Len(col.listing), outcome \in FetchOutcomes :
         /\ col.listing[i].state = "pending"
         /\ Proceed(Advance([col EXCEPT !.listing[i].state = "done",
                                        !.listing[i].failed = outcome # "ok",
                                        !.listing[i].got = ListingResults(col.listing[i], outcome)]),
                    cache, loads)
    /\ UNCHANGED <<kb, statements, mergeVars, fnVars>>

\* What a page fetch future can resolve to: None, or the candidate with one
\* of the languages the guess can come to
FetchResults(url, url_type, property, external_id, outcome) ==
    LET contents == GetContentsFromUrl(url, outcome, WebBody(CleanUrlOf(url)))
        text     == Html2TextOf(CleanUrlOf(url), contents)
    IN  IF contents = "" THEN {None}
        ELSE {Some(UrlCandidate(url, url_type, property, external_id, language, text)) :
                 language \in GuessPageLanguagesOf(CleanUrlOf(url), text)}

\* generate_url_candidate resolves
CompletePageFetch ==
    /\ pc = "collecting"
    /\ \E i \in 1..Len(col.pages), outcome \in FetchOutcomes :
         /\ col.pages[i].state = "pending"
         /\ \E got \in FetchResults(col.pages[i].url, "WikiExternal", None, None, outcome) :
              Proceed(Advance([col EXCEPT !.pages[i].state = "done",
                                             !.pages[i].failed = outcome # "ok",
                                             !.pages[i].got = got]),
                      cache, loads)
    /\ UNCHANGED <<kb, statements, mergeVars, fnVars>>

\* One get_contents_from_url of get_direct_websites resolves
CompleteWebsiteFetch ==
    /\ pc = "collecting"
    /\ \E i \in 1..Len(col.websites), outcome \in FetchOutcomes :
         /\ col.websites[i].state = "pending"
         /\ \E got \in FetchResults(col.websites[i].url, "DirectWebsite", None, None, outcome) :
              Proceed(Advance([col EXCEPT !.websites[i].state = "done",
                                             !.websites[i].failed = outcome # "ok",
                                             !.websites[i].got = got]),
                      cache, loads)
    /\ UNCHANGED <<kb, statements, mergeVars, fnVars>>

\* load_entities of get_candidates_for_external_ids resolves
CompletePropertyLoad ==
    /\ pc = "collecting"
    /\ col.estage = "props"
    /\ \E outcome \in LoadOutcomes :
         LET props == PropIdProperties(kb.claims)
             ch    == IF outcome = "ok" THEN cache \cup {props[i] : i \in 1..Len(props)}
                      ELSE cache
         IN  Proceed(Advance([col EXCEPT
                         !.estage = IF outcome = "err" THEN "done" ELSE "fetch",
                         !.formatter = IF outcome = "err" THEN <<>>
                                       ELSE FormatterSlots(kb.claims, ch)]),
                     ch, loads)
    /\ UNCHANGED <<kb, statements, mergeVars, fnVars>>

\* get_url_candidate_from_external_id resolves
CompleteFormatterFetch ==
    /\ pc = "collecting"
    /\ \E i \in 1..Len(col.formatter), outcome \in FetchOutcomes :
         /\ col.formatter[i].state = "pending"
         /\ \E got \in FetchResults(col.formatter[i].url, "ExternalId",
                                    Some(col.formatter[i].extra[1]),
                                    Some(col.formatter[i].extra[2]), outcome) :
              Proceed(Advance([col EXCEPT !.formatter[i].state = "done",
                                          !.formatter[i].failed = outcome # "ok",
                                          !.formatter[i].got = got]),
                      cache, loads)
    /\ UNCHANGED <<kb, statements, mergeVars, fnVars>>

\* The load of a linked entity in get_statement_search_patterns resolves;
\* the last future to resolve runs the tail of get_potential_references
TaskAfterLoad(i, outcome, ch) ==
    IF outcome = "err" THEN TaskErr
    ELSE IF tasks[i].entity \in ch
         THEN TaskFrom(statements[i], Values(pool), ch, tasks[i].at)
         ELSE TaskFrom(statements[i], Values(pool), ch, tasks[i].at + 1)

\* join_all once a future has come to its next await or has resolved
Settle(ts) ==
    /\ tasks' = ts
    /\ IF AllTasksDone(ts)
       THEN pc' = "done" /\ result' = Finish(ts)
       ELSE pc' = "matching" /\ result' = result

Resume(i, task) ==
    /\ loads' = Requested(loads, LoadingEntities(<<task>>))
    /\ Settle([tasks EXCEPT ![i] = task])

CompleteEntityLoad ==
    /\ pc = "matching"
    /\ \E i \in 1..Len(tasks) :
         /\ tasks[i].state = "loading"
         /\ \E outcome \in EntityLoadOutcomes(tasks[i].entity) :
              /\ cache' = IF outcome = "ok" THEN cache \cup {tasks[i].entity} ELSE cache
              /\ Resume(i, TaskAfterLoad(i, outcome, cache'))
    /\ UNCHANGED <<kb, statements, col, pool, mergeVars, fnVars>>

Next ==
    \/ IsSupportedEntity
    \/ CompleteTargetLoad
    \/ GetStatementsNeedingReferences
    \/ GetCandidateUrls
    \/ CompleteListingFetch
    \/ CompletePageFetch
    \/ CompleteWebsiteFetch
    \/ CompletePropertyLoad
    \/ CompleteFormatterFetch
    \/ CompleteEntityLoad

Spec == Init /\ [][Next]_vars

\* Requests for entities with two statements that link to the same entity,
\* and possibly an external id, a website, and either statements that need
\* no reference or whose URLs are on the denylist, or a citizenship
\* statement and the website of the auction house
LinkedWorlds ==
    WithAbsent(
    {[claims    |-> SelectSeq(Templates, LAMBDA t : t.id \in {"Q1$3"} \cup ids) \o more,
      sitelinks |-> sl] :
        ids \in SUBSET {"Q1$4", "Q1$5"},
        more \in {<<LinkedAgain>>,
                  <<Media, DeniedWebsite, DeniedId, Templates[7], LinkedAgain>>,
                  <<Templates[2], Citizen, Auction>>},
        sl \in {<<>>, <<Sitelink("enwiki", "Foo")>>}})

InitLinked ==
    /\ kb \in LinkedWorlds
    /\ RequestIdle
    /\ MergeIdle
    /\ mpc = "off"
    /\ FnIdle

SpecLinked == InitLinked /\ [][Next]_vars

\* Whether the request waits: for the collector to be started, for a fetch,
\* or for a load from the knowledge base
Waiting ==
    \/ pc = "target"
    \/ pc = "candidates"
    \/ \E k \in 1..Len(col.listing) : col.listing[k].state = "pending"
    \/ \E k \in 1..Len(col.pages) : col.pages[k].state = "pending"
    \/ \E k \in 1..Len(col.websites) : col.websites[k].state = "pending"
    \/ \E k \in 1..Len(col.formatter) : col.formatter[k].state = "pending"
    \/ col.estage = "props"
    \/ \E i \in 1..Len(tasks) : tasks[i].state = "loading"

\* The same requests when every load and every fetch comes to an end: the
\* first two steps are taken, and the request does not wait forever
SpecLive ==
    /\ InitLinked /\ [][Next]_vars
    /\ WF_vars(IsSupportedEntity) /\ WF_vars(GetStatementsNeedingReferences)
    /\ []<>~Waiting

\* Requests for entities with one eligible statement, one or two external
\* ids whose properties share a formatter URL, and possibly a website
FormatterWorlds ==
    WithAbsent(
    {[claims    |-> SelectSeq(Templates, LAMBDA t : t.id \in ids),
      sitelinks |-> sl] :
        ids \in {{e} \cup X : e \in {"Q1$2", "Q1$3"},
                               X \in {Y \in SUBSET {"Q1$4", "Q1$5", "Q1$9"} :
                                          Y \cap {"Q1$4", "Q1$9"} # {}}},
        sl \in SitelinkOptions})

InitFormatter ==
    /\ kb \in FormatterWorlds
    /\ RequestIdle
    /\ MergeIdle
    /\ mpc = "off"
    /\ FnIdle

SpecFormatter == InitFormatter /\ [][Next]_vars

(***************************************************************************)
(* The sort-then-merge step on its own: `ret.sort()` followed by           *)
(* merge_cuc_candidates, on any list of raw match records, and once more   *)
(* on its own result.                                                      *)
(***************************************************************************)
RawTexts ==
    {[before |-> "born on ", regexp_match |-> "May 17, 1990", after |-> " in Berlin"],
     [before |-> "", regexp_match |-> "1990-05-17", after |-> ""]}

\* The candidate pools behind the raw records: one entry for each URL, with
\* the property, the external id and the language of that candidate
RawUrls == {"http://a.example/", "https://id.example/X1"}
RawPools ==
    [RawUrls -> [property_id : {<<None, None>>, <<Some("P214"), Some("X1")>>},
                 language    : {"de", "en"}]]

\* The raw match records ConciseUrlCandidate::new can hand to the step from
\* the pool: every record takes property, external id and language from the
\* entry of its URL
RawCucs(p) ==
    {[statement_id |-> sid, url |-> url, property |-> p[url].property_id[1],
      external_id |-> p[url].property_id[2], stated_in |-> None,
      language |-> p[url].language, texts |-> <<tp>>] :
        sid \in {"Q1$2", "Q1$3"},
        url \in RawUrls,
        tp \in RawTexts}

InitMerge ==
    /\ kb = [claims |-> <<>>, sitelinks |-> <<>>, absent |-> {}]
    /\ RequestIdle
    /\ \E p \in RawPools : input \in UNION {[1..n -> RawCucs(p)] : n \in 0..MaxRaw}
    /\ sorted = <<>>
    /\ merged = Returned(<<>>)
    /\ remerged = Returned(<<>>)
    /\ mpc = "input"
    /\ FnIdle

\* ret.sort()
SortRaw ==
    /\ mpc = "input"
    /\ sorted' = SortCuc(input)
    /\ mpc' = "sorted"
    /\ UNCHANGED <<requestVars, fnVars, input, merged, remerged>>

\* Self::merge_cuc_candidates(ret)
MergeSorted ==
    /\ mpc = "sorted"
    /\ merged' = MergeCucCandidates(sorted)
    /\ mpc' = "merged"
    /\ UNCHANGED <<requestVars, fnVars, input, sorted, remerged>>

\* The same two calls on the list the first pass returned
MergeAgain ==
    /\ mpc = "merged"
    /\ ~merged.panicked
    /\ remerged' = MergeCucCandidates(SortCuc(merged.list))
    /\ mpc' = "remerged"
    /\ UNCHANGED <<requestVars, fnVars, input, sorted, merged>>

NextMerge ==
    \/ SortRaw
    \/ MergeSorted
    \/ MergeAgain

SpecMerge == InitMerge /\ [][NextMerge]_vars

(***************************************************************************)
(* The pure functions on their own: get_statement_search_patterns on a     *)
(* time value and on a linked entity, and guess_page_language_from_text.   *)
(***************************************************************************)
\* Bound of the model: how often a text repeats a word
MaxWords == 6

\* Year digits as a time string carries them, with the year they denote
YearDigits == {<<"1990", "1990">>, <<"0990", "990">>, <<"0007", "7">>, <<"0000", "0">>,
               <<"12345", "12345">>}

\* Time values: year precision (9) and month precision (10) may leave month
\* and day at 00, day precision (11) names a calendar day
TimeInputs ==
    {[fn |-> "time", sign |-> sign, digits |-> y[1], bare |-> y[2], month |-> md[1],
      day |-> md[2], precision |-> precision, language |-> language,
      time |-> sign \o y[1] \o "-" \o Pad2(md[1]) \o "-" \o Pad2(md[2]) \o "T00:00:00Z"] :
        sign \in {"+", "-"}, y \in YearDigits,
        md \in {x \in (0..12) \X {0, 5, 17} : x[1] = 0 => x[2] = 0},
        precision \in {9, 10, 11},
        language \in Languages \cup {"nl"}}

\* Time strings the regex does not match
BadTimeInputs ==
    {[fn |-> "time", sign |-> "", digits |-> "", bare |-> "", month |-> 0, day |-> 0,
      precision |-> precision, language |-> "en", time |-> t] :
        t \in {"", "+1990", "+1990-5-17T00:00:00Z"}, precision \in {9, 11}}

\* Labels and aliases of a linked entity, blanks and regex metacharacters included
AliasTexts == {"Berlin", " B ", "ab", "C+", "Åb", "a.b", "  abc ", ""}

EntityInputs ==
    {[fn |-> "entity", language |-> language,
      vi |-> [labels  |-> <<Term("de", a), Term("mul", b), Term("en", a)>>,
              aliases |-> <<Term("en", c), Term("de", b), Term("en", b)>>,
              claims  |-> <<>>]] :
        language \in {"en", "de"}, a \in AliasTexts, b \in AliasTexts, c \in AliasTexts}

RECURSIVE Repeat(_, _)
Repeat(word, n) == IF n = 0 THEN "" ELSE word \o " " \o Repeat(word, n - 1)

\* Texts of function words, some of them shared between languages
TextInputs ==
    {[fn |-> "text", text |-> Repeat(w[1], n[1]) \o Repeat(w[2], n[2])] :
        w \in {<<"the", "das">>, <<"la", "das">>, <<"la", "est">>, <<"a", "xyz">>,
               <<"es", "el">>},
        n \in (0..MaxWords) \X (0..MaxWords)}

InitFn ==
    /\ kb = [claims |-> <<>>, sitelinks |-> <<>>, absent |-> {}]
    /\ RequestIdle
    /\ MergeIdle
    /\ mpc = "off"
    /\ fin \in {x \in TimeInputs : x.precision = 11 => x.month >= 1 /\ x.day >= 1}
               \cup BadTimeInputs \cup EntityInputs \cup TextInputs
    /\ fout = <<>>
    /\ fpc = "call"

\* get_statement_search_patterns on a statement with a time value
SearchPatternsForTime ==
    /\ fpc = "call"
    /\ fin.fn = "time"
    /\ fout' = StatementSearchPatterns(
                   Claim("Q1$2", "P569", "time", TimeValue(fin.time, fin.precision), <<>>),
                   fin.language, {})
    /\ fpc' = "done"
    /\ UNCHANGED <<requestVars, mergeVars, fin>>

\* get_statement_search_patterns on a linked entity that is in the cache
SearchPatternsForEntity ==
    /\ fpc = "call"
    /\ fin.fn = "entity"
    /\ fout' = EntityPatterns(fin.vi, fin.language)
    /\ fpc' = "done"
    /\ UNCHANGED <<requestVars, mergeVars, fin>>

\* guess_page_language_from_text: one of the results the HashMap's order allows
GuessPageLanguageFromText ==
    /\ fpc = "call"
    /\ fin.fn = "text"
    /\ fout' \in GuessPageLanguages(fin.text)
    /\ fpc' = "done"
    /\ UNCHANGED <<requestVars, mergeVars, fin>>

NextFn ==
    \/ SearchPatternsForTime
    \/ SearchPatternsForEntity
    \/ GuessPageLanguageFromText

SpecFn == InitFn /\ [][NextFn]_vars

(***************************************************************************)
(* Properties.                                                             *)
(***************************************************************************)
\* C1: get_potential_references ends with a list or with an error value, and
\* with an eligible statement, a non-empty pool and no match left over it
\* ends with the empty list.
C1_ListOrError ==
    pc = "done" =>
        /\ result.kind \in {"ok", "err"}
        /\ (statements # <<>> /\ pool # <<>> /\ RawRecords(tasks) = <<>>)
               => result = ResultOk(<<>>)

C2_Ineligible(c) ==
    \/ c.property \in {"P225", "P373", "P1472", "P1889"}
    \/ c.datatype \in {"external-id", "commonsMedia"}

C2_OnlyTargetLoaded == loads = [id \in KbIds |-> IF id = TargetId THEN 1 ELSE 0]

\* C2: when the loaded target entity has no eligible statement, the request
\* ends with the empty list, starts no candidate-collection fetch, and asks
\* the knowledge base for the target entity only.
C2_NoEligibleNoFetch ==
    (TargetId \in cache /\ \A i \in 1..Len(kb.claims) : C2_Ineligible(kb.claims[i])) =>
        /\ col = IdleCol
        /\ C2_OnlyTargetLoaded
        /\ pc = "done" => result = ResultOk(<<>>)

C2_Witness ==
    /\ pc = "done"
    /\ TargetId \in cache
    /\ Len(kb.claims) = 2
    /\ \A i \in 1..Len(kb.claims) : C2_Ineligible(kb.claims[i])
    /\ Len(kb.sitelinks) = 3
    /\ result = ResultOk(<<>>)

C3_Excluded ==
    \E i \in 1..Len(kb.claims) :
        /\ kb.claims[i].property = "P31"
        /\ kb.claims[i].value \in
               {EntityValue(m) : m \in {"Q13442814", "Q16521", "Q4167836", "Q4167410", "Q5296"}}

\* C3: when the loaded target entity has an instance-of statement that
\* targets an excluded type marker, the request ends with the empty list,
\* whatever its other statements are.
C3_ExcludedTypeEmpty ==
    (pc = "done" /\ TargetId \in cache /\ C3_Excluded) => result = ResultOk(<<>>)

C3_Witness ==
    /\ pc = "done"
    /\ TargetId \in cache
    /\ C3_Excluded
    /\ \E i \in 1..Len(kb.claims) : ~C2_Ineligible(kb.claims[i]) /\ kb.claims[i].property # "P31"
    /\ result = ResultOk(<<>>)

Key4(r) == <<r.statement_id, r.url, r.property, r.external_id>>

C4_Merged == mpc \in {"merged", "remerged"} /\ ~merged.panicked

\* C4: every (statement id, url, property, external_id) of the input has
\* exactly one merged record, whose windows are the deduplicated union of
\* the windows of the input records with that key.
C4_UniquePerKey ==
    C4_Merged =>
        \A i \in 1..Len(input) :
            /\ Cardinality({j \in 1..Len(merged.list) :
                               Key4(merged.list[j]) = Key4(input[i])}) = 1
            /\ \A j \in 1..Len(merged.list) :
                   Key4(merged.list[j]) = Key4(input[i]) =>
                       /\ {merged.list[j].texts[t] : t \in 1..Len(merged.list[j].texts)}
                            = {input[k].texts[1] :
                                  k \in {n \in 1..Len(input) : Key4(input[n]) = Key4(input[i])}}
                       /\ Len(merged.list[j].texts)
                            = Cardinality({merged.list[j].texts[t] :
                                              t \in 1..Len(merged.list[j].texts)})

C4_Witness ==
    /\ mpc = "merged"
    /\ ~merged.panicked
    /\ Len(input) = 3
    /\ Len(merged.list) = 2
    /\ \E i, j \in 1..Len(input) :
           /\ i < j
           /\ Key4(input[i]) = Key4(input[j])
           /\ input[i].texts # input[j].texts
           /\ \E k \in (i + 1)..(j - 1) : Key4(input[k]) # Key4(input[i])
    /\ \E j \in 1..Len(merged.list) : Len(merged.list[j].texts) = 2
    /\ \E i, j \in 1..Len(merged.list) : merged.list[i].language # merged.list[j].language

\* C5: sorting and merging the list that sorting and merging returned gives
\* that list again: the same records in the same order, each with the same
\* windows in the same order.
C5_MergeIdempotent == mpc = "remerged" => remerged = merged

C5_Witness ==
    /\ mpc = "remerged"
    /\ Len(input) = 3
    /\ Len(merged.list) = 2
    /\ \E j \in 1..Len(merged.list) : Len(merged.list[j].texts) = 2
    /\ remerged = merged

C6_Cited(statement, c) ==
    \E r \in 1..Len(statement.references) :
        \E k \in 1..Len(statement.references[r]) :
            \/ /\ statement.references[r][k].property = "P854"
               /\ statement.references[r][k].value = StringValue(c.url)
            \/ /\ c.url_type = "ExternalId"
               /\ c.property # None
               /\ c.external_id # None
               /\ statement.references[r][k].property = c.property[1]
               /\ statement.references[r][k].value = StringValue(c.external_id[1])

\* C6: a statement one of whose references holds the candidate's URL as
\* reference URL, or (formatter candidates) the candidate's external id
\* under the candidate's property, has no record with that candidate's URL
\* in the list returned.
C6_NoRecordForCitedPair ==
    (pc = "done" /\ result.kind = "ok") =>
        \A i \in 1..Len(kb.claims), j \in 1..Len(pool) :
            C6_Cited(kb.claims[i], pool[j].value) =>
                \A r \in 1..Len(result.list) :
                    ~(/\ result.list[r].statement_id = kb.claims[i].id
                      /\ result.list[r].url = pool[j].value.url)

C6_Witness ==
    /\ pc = "done"
    /\ result.kind = "ok"
    /\ \E i \in 1..Len(kb.claims) :
           /\ \E j \in 1..Len(pool) :
                  /\ C6_Cited(kb.claims[i], pool[j].value)
                  /\ pool[j].value.url_type = "ExternalId"
                  /\ Contains(pool[j].value.text, "1990")
           /\ \E j \in 1..Len(pool) :
                  /\ C6_Cited(kb.claims[i], pool[j].value)
                  /\ pool[j].value.url_type = "WikiExternal"
                  /\ Contains(pool[j].value.text, "1990")
           /\ \E r \in 1..Len(result.list) : result.list[r].statement_id = kb.claims[i].id

C7_Slots == col.pages \o col.websites \o col.formatter
C7_PoolKeys == {pool[j].key : j \in 1..Len(pool)}
C7_Fetched(url) ==
    \E i \in 1..Len(C7_Slots) :
        /\ C7_Slots[i].url = url
        /\ ~C7_Slots[i].failed
        /\ WebBody(CleanUrlOf(url)) # ""

\* C7: once the three strategies are joined, the pool holds every URL one
\* of whose fetches returned content and no URL all of whose fetches
\* failed, and get_candidate_urls has not returned an error.
C7_FetchFailureOnlyDropsUrl ==
    (pc \in {"matching", "done"} /\ Joined(col)) =>
        /\ result.kind # "err"
        /\ \A i \in 1..Len(C7_Slots) :
               C7_Slots[i].url \in C7_PoolKeys <=> C7_Fetched(C7_Slots[i].url)

C7_Witness ==
    /\ pc \in {"matching", "done"}
    /\ Joined(col)
    /\ \E i, j, k \in 1..Len(C7_Slots) :
           /\ C7_Slots[i].sent /\ C7_Slots[i].failed
           /\ ~C7_Fetched(C7_Slots[i].url)
           /\ C7_Slots[i].url \notin C7_PoolKeys
           /\ ~C7_Slots[k].sent
           /\ C7_Slots[k].url \notin C7_PoolKeys
           /\ ~C7_Slots[j].failed
           /\ C7_Slots[j].url \in C7_PoolKeys

C8_LinkedLoadFailed == \E i \in 1..Len(tasks) : tasks[i].state = "done" /\ ~tasks[i].ok
C8_PropertyLoadFailed ==
    /\ col.estage = "done"
    /\ PropIds(kb.claims) # <<>>
    /\ \E i \in 1..Len(PropIds(kb.claims)) : PropIds(kb.claims)[i][1] \notin cache

\* C8: the request ends with an error only when the load of the target
\* entity failed; when the load of a linked entity or of a property entity
\* failed, the request still ends with a list.
C8_ErrorOnlyFromTarget ==
    pc = "done" =>
        /\ result.kind = "err" => TargetId \notin cache
        /\ (C8_LinkedLoadFailed \/ C8_PropertyLoadFailed) => result.kind = "ok"

\* C9: the list returned is in non-decreasing order of (statement id, URL,
\* property, external id, language), and the windows of every record are in
\* ascending order without repeats.
C9_OutputSorted ==
    (pc = "done" /\ result.kind = "ok") =>
        /\ \A i \in 1..(Len(result.list) - 1) : CucCmp(result.list[i], result.list[i + 1]) <= 0
        /\ \A i \in 1..Len(result.list) :
               \A t \in 1..(Len(result.list[i].texts) - 1) :
                   TextPartCmp(result.list[i].texts[t], result.list[i].texts[t + 1]) < 0

C9_Witness ==
    /\ pc = "done"
    /\ result.kind = "ok"
    /\ Len(result.list) >= 2
    /\ \E i \in 1..Len(result.list) : Len(result.list[i].texts) >= 2
    /\ \E i \in 1..(Len(RawRecords(tasks)) - 1) :
           CucCmp(RawRecords(tasks)[i], RawRecords(tasks)[i + 1]) > 0

\* C10: the pool holds at most one entry per URL, and the key of every
\* entry is the URL of the candidate it holds.
C10_PoolUniqueKeys ==
    \A i, j \in 1..Len(pool) :
        /\ pool[i].key = pool[j].key => i = j
        /\ pool[i].key = pool[i].value.url

C10_Witness ==
    /\ Len(pool) >= 2
    /\ \E i, j \in 1..Len(col.pages) :
           /\ i # j
           /\ col.pages[i].url = col.pages[j].url
           /\ col.pages[i].got # None /\ col.pages[j].got # None
           /\ \E k \in 1..Len(col.websites) :
                  /\ col.websites[k].url = col.pages[i].url
                  /\ col.websites[k].got # None
    /\ \E i \in 1..Len(col.pages), k \in 1..Len(col.formatter) :
           /\ col.formatter[k].url = col.pages[i].url
           /\ col.pages[i].got # None /\ col.formatter[k].got # None

\* The pool and the merged list as the responses alone give them: the
\* futures taken in the order they were created, whatever order they
\* resolved in, and the map in the order the entries were put in
C11_Pool == AddStatedIn(ChainedCandidates(col), cache)
C11_Raw ==
    SelectSeq(Flatten([i \in 1..Len(statements) |->
                          IF tasks[i].ok
                          THEN StatementRecords(statements[i], Values(C11_Pool), cache)
                          ELSE <<>>]),
              LAMBDA r : r.property # Some("P973"))
C11_Merged == MergeCucCandidates(SortCuc(C11_Raw))

\* C11: what a request with a non-empty pool returns is fixed by the
\* responses it got (the fetch results, the entities loaded, the matching
\* tasks whose load failed): it is the list those responses give when every
\* future is taken in creation order, whatever the order the fetches and
\* the matching tasks completed in and whatever the order the pool is
\* iterated in.
C11_OrderNotObservable ==
    (pc = "done" /\ Joined(col) /\ pool # <<>>) =>
        /\ result.kind = "ok" <=> ~C11_Merged.panicked
        /\ result.kind = "ok" => result.list = C11_Merged.list

C11_Witness ==
    /\ pc = "done"
    /\ Joined(col)
    /\ result.kind = "ok"
    /\ Len(result.list) >= 2
    /\ pool # C11_Pool
    /\ \E i \in 1..(Len(RawRecords(tasks)) - 1) :
           CucCmp(RawRecords(tasks)[i], RawRecords(tasks)[i + 1]) > 0
    /\ loads["Q64"] >= 2
    /\ \E i, j \in 1..Len(statements) :
           /\ i # j
           /\ IsEntityValued(statements[i]) /\ IsEntityValued(statements[j])
           /\ statements[i].value[1].id = statements[j].value[1].id
           /\ statements[i].value[1].id \in cache
           /\ \E r \in 1..Len(result.list) : result.list[r].statement_id = statements[i].id
           /\ \E r \in 1..Len(result.list) : result.list[r].statement_id = statements[j].id

\* C12: a year-precision time value whose time string parses yields one
\* pattern in every language: the year without sign and leading zeros.
C12_YearPrecisionBareYear ==
    (fpc = "done" /\ fin.fn = "time" /\ fin.precision = 9 /\ fin.digits # "") =>
        fout = <<fin.bare>>

C12_Witness ==
    /\ fpc = "done"
    /\ fin.fn = "time"
    /\ fin.precision = 9
    /\ fin.sign = "-"
    /\ fin.digits = "0990"
    /\ fin.month = 0
    /\ fin.language = "de"
    /\ fout = <<"990">>

C13_Long == <<"January", "February", "March", "April", "May", "June", "July", "August",
              "September", "October", "November", "December">>
C13_Abbr == <<"Jan", "Feb", "Mar", "Apr", "May", "Jun", "Jul", "Aug", "Sep", "Oct", "Nov",
              "Dec">>
C13_Two(n) == IF n < 10 THEN "0" \o ToString(n) ELSE ToString(n)

\* C13: a day-precision time value yields, for English, the ISO form, the
\* long-month form "Month D, YYYY" and the abbreviated form "Mon D, YYYY",
\* each with the value's own year, month and day.
C13_EnglishDayForms ==
    (fpc = "done" /\ fin.fn = "time" /\ fin.precision = 11 /\ fin.digits # ""
     /\ fin.language = "en") =>
        {fin.bare \o "-" \o C13_Two(fin.month) \o "-" \o C13_Two(fin.day),
         C13_Long[fin.month] \o " " \o ToString(fin.day) \o ", " \o fin.bare,
         C13_Abbr[fin.month] \o " " \o ToString(fin.day) \o ", " \o fin.bare}
            \subseteq {fout[i] : i \in 1..Len(fout)}

C13_Witness ==
    /\ fpc = "done"
    /\ fin.fn = "time"
    /\ fin.precision = 11
    /\ fin.language = "en"
    /\ fin.time = "+1990-09-05T00:00:00Z"
    /\ \E i, j, k \in 1..Len(fout) :
           /\ fout[i] = "1990-09-05"
           /\ fout[j] = "September 5, 1990"
           /\ fout[k] = "Sep 5, 1990"

\* The external-id statements of the entity as (property, id) pairs, the
\* URL a pair's formatter template gives, and the first pair (in the order
\* of the sorted pairs) that gives a URL
C14_Pairs ==
    {<<kb.claims[i].property, kb.claims[i].value[1].s>> :
        i \in {k \in 1..Len(kb.claims) : kb.claims[k].datatype = "external-id"}}
C14_Template(P) ==
    LET t == SelectSeq(EntityData(P).claims, LAMBDA c : c.property = "P1630")
    IN  IF P \in cache /\ t # <<>> THEN <<t[1].value[1].s>> ELSE <<>>
C14_Url(pair) ==
    LET T == C14_Template(pair[1])[1]
    IN  SubSeq(T, 1, Len(T) - 2) \o pair[2]
C14_Fetched(url) ==
    \E k \in 1..Len(col.formatter) :
        col.formatter[k].url = url /\ ~col.formatter[k].failed /\ col.formatter[k].got # None
C14_First(url) ==
    CHOOSE q \in C14_Pairs :
        /\ C14_Template(q[1]) # <<>> /\ C14_Url(q) = url
        /\ \A o \in C14_Pairs :
               (C14_Template(o[1]) # <<>> /\ C14_Url(o) = url) =>
                   Then(StrCmp(q[1], o[1]), StrCmp(q[2], o[2])) <= 0
C14_Tagged(url, pair) ==
    \E j \in 1..Len(pool) :
        /\ pool[j].key = url
        /\ pool[j].value.url = url
        /\ pool[j].value.url_type = "ExternalId"
        /\ pool[j].value.property = Some(pair[1])
        /\ pool[j].value.external_id = Some(pair[2])

\* C14 as stated: every external-id statement (P, V) whose property has a
\* formatter template and whose URL was fetched with content has its URL in
\* the pool, tagged as formatter candidate with P and V.
C14_FormatterCandidateOwnTag ==
    (pc \in {"matching", "done"} /\ Joined(col)) =>
        \A pair \in C14_Pairs :
            (C14_Template(pair[1]) # <<>> /\ C14_Fetched(C14_Url(pair))) =>
                C14_Tagged(C14_Url(pair), pair)

\* C14, amended: ... has its URL in the pool, tagged as formatter candidate
\* with the property and id of the first statement, in (property, id)
\* order, whose template gives that URL.
C14_FormatterCandidateFirstTag ==
    (pc \in {"matching", "done"} /\ Joined(col)) =>
        \A pair \in C14_Pairs :
            (C14_Template(pair[1]) # <<>> /\ C14_Fetched(C14_Url(pair))) =>
                C14_Tagged(C14_Url(pair), C14_First(C14_Url(pair)))

C14_Witness ==
    /\ pc \in {"matching", "done"}
    /\ Joined(col)
    /\ C14_Pairs = {<<"P214", "X1">>, <<"P227", "X1">>}
    /\ C14_Template("P227") # <<>>
    /\ C14_Fetched("https://id.example/X1")
    /\ \E k \in 1..Len(col.pages) :
           col.pages[k].url = "https://id.example/X1" /\ col.pages[k].got # None
    /\ C14_Tagged("https://id.example/X1", <<"P214", "X1">>)

\* The text has a match of the pattern somewhere; the string is a match of
\* the whole pattern; the output has a record for the statement and the
\* candidate with a window whose matched part is a match of the pattern
C15_Contains(text, pat) == \E g \in 0..Len(text) : PatternEnd(text, g, pat, 1) >= 0
C15_IsMatch(str, pat) == PatternEnd(str, 0, pat, 1) = Len(str)
C15_Recorded(statement, candidate, pat) ==
    /\ result.kind = "ok"
    /\ \E k \in 1..Len(result.list) :
           /\ result.list[k].statement_id = statement.id
           /\ result.list[k].url = candidate.url
           /\ \E t \in 1..Len(result.list[k].texts) :
                  C15_IsMatch(result.list[k].texts[t].regexp_match, pat)
C15_Patterns(statement, candidate) ==
    LET pats == StatementSearchPatternsOf(statement, candidate.language, cache)
    IN  {pats[n] : n \in {m \in 1..Len(pats) : Trim(pats[m]) # ""}}
C15_Pairs ==
    {<<i, j>> \in (1..Len(statements)) \X (1..Len(pool)) :
        /\ statements[i].references = <<>>
        /\ ~SkipsCandidate(statements[i], pool[j].value)}

\* C15 as stated: an eligible, unreferenced statement and a pooled
\* candidate whose text contains one of the statement's patterns for the
\* candidate's language give an output record for (statement id, URL) with
\* a window whose matched part is that pattern.
C15_ContainedPatternRecorded ==
    (pc = "done" /\ Joined(col)) =>
        \A pair \in C15_Pairs :
            \A pat \in C15_Patterns(statements[pair[1]], pool[pair[2]].value) :
                C15_Contains(pool[pair[2]].value.text, pat) =>
                    C15_Recorded(statements[pair[1]], pool[pair[2]].value, pat)

\* C15, amended: ... whose text has an occurrence of one of the statement's
\* patterns that begins and ends at a word boundary ...
C15_BoundedPatternRecorded ==
    (pc = "done" /\ Joined(col)) =>
        \A pair \in C15_Pairs :
            \A pat \in C15_Patterns(statements[pair[1]], pool[pair[2]].value) :
                Occurrences(pool[pair[2]].value.text, pat) # {} =>
                    C15_Recorded(statements[pair[1]], pool[pair[2]].value, pat)

C15_Witness ==
    /\ pc = "done"
    /\ Joined(col)
    /\ \E pair \in C15_Pairs :
           /\ statements[pair[1]].id = "Q1$2"
           /\ pool[pair[2]].value.url = "http://a.example/"
           /\ pool[pair[2]].value.language = "en"
           /\ "May 17, 1990" \in C15_Patterns(statements[pair[1]], pool[pair[2]].value)
           /\ Occurrences(pool[pair[2]].value.text, "May 17, 1990") # {}
           /\ C15_Recorded(statements[pair[1]], pool[pair[2]].value, "May 17, 1990")
    /\ \E k \in 1..Len(result.list) :
           \E t \in 1..Len(result.list[k].texts) :
               result.list[k].texts[t].regexp_match = "May 17, 1990"

\* C16: no record of the returned list has the statement id of a statement
\* whose property is "described at URL" (P973).
C16_NoDescribedAtUrlStatement ==
    result.kind = "ok" =>
        \A k \in 1..Len(result.list) :
            \A i \in 1..Len(kb.claims) :
                kb.claims[i].property = "P973" =>
                    result.list[k].statement_id # kb.claims[i].id

\* The string values the entity has for a property, and the URLs that are
\* in the pool for no other reason than being a "described at URL" value
C17_Values(property) ==
    {kb.claims[i].value[1].s :
        i \in {k \in 1..Len(kb.claims) :
                  /\ kb.claims[k].property = property
                  /\ kb.claims[k].value # NoValue
                  /\ kb.claims[k].value[1].type = "string"}}
C17_OnlyDescribedAt ==
    {pool[j].key : j \in {n \in 1..Len(pool) :
        /\ pool[n].key \in C17_Values("P973") \ C17_Values("P856")
        /\ \A k \in 1..Len(col.pages) : col.pages[k].url # pool[n].key
        /\ \A k \in 1..Len(col.formatter) : col.formatter[k].url # pool[n].key}}

\* C17: a URL that is in the pool only as a value of "described at URL"
\* (P973) is never the url of a record of the returned list.
C17_NoDescribedAtUrlCandidate ==
    (pc = "done" /\ result.kind = "ok") =>
        \A k \in 1..Len(result.list) : result.list[k].url \notin C17_OnlyDescribedAt

\* The language whose count is above the floor and strictly above every
\* other language's count, if there is one
C18_StrictBest(counts) ==
    {l \in Languages :
        counts[l] > LanguageFloor /\ \A o \in Languages \ {l} : counts[l] > counts[o]}

\* C18: the guess is a language other than "en" only if that language's
\* count is above 5 and strictly above every other language's count; with
\* a tie for the highest count or no count above 5 the guess is "en".
C18_StrictMaximumOrDefault ==
    (fpc = "done" /\ fin.fn = "text") =>
        /\ fout # "en" => fout \in C18_StrictBest(LanguageCounts(fin.text))
        /\ C18_StrictBest(LanguageCounts(fin.text)) = {} => fout = "en"

\* The labels and aliases the linked entity offers for the language
C19_Strings ==
    LET all == FirstOf(ValuesIn(fin.vi.labels, "mul"))
               \o FirstOf(ValuesIn(fin.vi.labels, fin.language))
               \o ValuesIn(fin.vi.aliases, fin.language)
    IN  {all[i] : i \in 1..Len(all)}

\* C19: for a linked entity, a label or alias whose trimmed text has fewer
\* than 3 characters gives no pattern, and one with 3 characters or more
\* gives exactly its regex-escaped trimmed text.
C19_ShortDiscardedLongEscaped ==
    (fpc = "done" /\ fin.fn = "entity") =>
        \A a \in C19_Strings :
            (Len(Trim(a)) >= MinAliasLen) <=>
                (\E k \in 1..Len(fout) : fout[k] = RegexEscape(Trim(a)))

\* The page-text fetches that the links of one answered listing call for
C20_PagesOf(slot) ==
    IF slot.state = "done" /\ slot.got # <<>>
    THEN {PageCandidates(slot.got[1])[n] : n \in 1..Len(PageCandidates(slot.got[1]))}
    ELSE {}

\* C20: while one fetch is pending, every other fetch of the request has
\* been issued or can be issued without waiting for it: the page fetches
\* for the links of an answered listing are issued although the listing of
\* another wiki is still pending.
C20_NoFetchWaitsForAnother ==
    pc = "collecting" =>
        \A i, j \in 1..Len(col.listing) :
            (i # j /\ col.listing[j].state = "pending") =>
                \A u \in C20_PagesOf(col.listing[i]) :
                    \E k \in 1..Len(col.pages) : col.pages[k].url = u

\* C21: no page-text fetch of an outbound link exists before every listing
\* fetch has completed or failed; the wiki strategy's map is built only
\* after every page-text fetch has completed or failed; the three maps are
\* unioned into the pool, and matching starts, only after all three
\* strategies have finished.
C21_StageBarriers ==
    /\ col.pages # <<>> => AllDone(col.listing)
    /\ col.wstage = "done" => AllDone(col.listing) /\ AllDone(col.pages)
    /\ (pool # <<>> \/ tasks # <<>> \/ pc = "matching") =>
           /\ Joined(col)
           /\ AllDone(col.listing) /\ AllDone(col.pages)
           /\ AllDone(col.websites) /\ AllDone(col.formatter)

C21_Witness ==
    /\ pc = "collecting"
    /\ Len(col.listing) >= 2
    /\ AllDone(col.listing)
    /\ \E k \in 1..Len(col.pages) : col.pages[k].state = "pending"
    /\ \E k \in 1..Len(col.pages) : col.pages[k].state = "done" /\ col.pages[k].got # <<>>
    /\ col.dstage = "done"
    /\ \E k \in 1..Len(col.websites) : col.websites[k].got # <<>>
    /\ pool = <<>>

\* C22: within one request every entity or property id is fetched from the
\* knowledge base at most once.
C22_LoadedAtMostOnce == \A id \in KbIds : loads[id] <= 1

\* Whether the URL contains one of the denylisted substrings, and all the
\* fetch futures of the collector
C23_Denylisted(url) == \E i \in 1..Len(BAD_URLS) : Contains(url, BAD_URLS[i])
C23_Slots == col.listing \o col.pages \o col.websites \o col.formatter

\* C23: for a URL that contains a denylisted substring no request is sent,
\* its fetch brings nothing, and it is never a key of the pool, whichever
\* strategy produced it.
C23_DenylistedNeverFetched ==
    /\ \A k \in 1..Len(C23_Slots) :
           C23_Denylisted(C23_Slots[k].url) =>
               ~C23_Slots[k].sent /\ C23_Slots[k].got = <<>>
    /\ \A j \in 1..Len(pool) : ~C23_Denylisted(pool[j].key)

C23_Witness ==
    /\ pool # <<>>
    /\ \E k \in 1..Len(col.pages) :
           col.pages[k].url = "https://www.google.com/x" /\ ~col.pages[k].sent
    /\ \E k \in 1..Len(col.websites) :
           col.websites[k].url = "https://www.google.com/x" /\ ~col.websites[k].sent
    /\ \E k \in 1..Len(col.formatter) :
           col.formatter[k].url = "https://id.example/viaf.org/1" /\ ~col.formatter[k].sent

\* C24: if every load and every fetch eventually completes or fails, the
\* call eventually returns a list or an error.
C24_EventuallyReturns == <>(pc = "done" /\ result.kind \in {"ok", "err"})

\* The statements of the entity that are to be given references
C25_Eligible(c) ==
    /\ c.property \notin {"P225", "P373", "P1472", "P1889"}
    /\ c.datatype # "external-id"
    /\ c.datatype # "commonsMedia"
C25_EligibleIds == {kb.claims[i].id : i \in {k \in 1..Len(kb.claims) : C25_Eligible(kb.claims[k])}}

\* C25: get_statements_needing_references returns, in the entity's statement
\* order, exactly the statements whose property is not reference-exempt and
\* whose datatype is neither external-id nor Commons media; every output
\* record's statement id is the id of one of them.
C25_ExactlyTheEligible ==
    /\ pc \notin {"start", "statements"} /\ TargetId \in cache =>
           statements = SelectSeq(kb.claims, C25_Eligible)
    /\ \A k \in 1..Len(result.list) : result.list[k].statement_id \in C25_EligibleIds

C25_Witness ==
    /\ pc = "done"
    /\ result.kind = "ok"
    /\ result.list # <<>>
    /\ Len(statements) >= 3
    /\ \E i \in 1..Len(kb.claims) : kb.claims[i].datatype = "commonsMedia"
    /\ \E i \in 1..Len(kb.claims) : kb.claims[i].datatype = "external-id"
    /\ \E i \in 1..Len(kb.claims) : kb.claims[i].property = "P225"
    /\ \E i, j \in 1..Len(kb.claims) : i < j /\ ~C25_Eligible(kb.claims[i]) /\ C25_Eligible(kb.claims[j])

\* C26: in the wiki strategy each distinct outbound URL is fetched at most
\* once per request; links to wiki-family domains and sitelinks whose
\* title has a namespace prefix are never fetched.
C26_OutboundFetchedOnce ==
    /\ \A i, j \in 1..Len(col.pages) :
           (i # j /\ col.pages[i].sent /\ col.pages[j].sent) =>
               col.pages[i].url # col.pages[j].url
    /\ \A i \in 1..Len(col.pages) : ~IsWikiUrl(col.pages[i].url)
    /\ \A i \in 1..Len(col.listing) : ~Contains(col.listing[i].extra.title, ":")

\* The statement of the entity with the given id
C27_Statement(id) == kb.claims[CHOOSE i \in 1..Len(kb.claims) : kb.claims[i].id = id]
C27_Auction(url) == Contains(url, "www.invaluable.com")

\* C27: no output record pairs a statement of P27 with a candidate whose
\* URL contains "www.invaluable.com"; every other statement is matched
\* against that candidate as against any other (stated for the statements
\* whose own matching did not fail).
C27_CitizenshipNotMatchedOnAuction ==
    /\ \A k \in 1..Len(result.list) :
           ~(/\ C27_Statement(result.list[k].statement_id).property = "P27"
             /\ C27_Auction(result.list[k].url))
    /\ (pc = "done" /\ Joined(col)) =>
           \A i \in 1..Len(statements), j \in 1..Len(pool) :
               (/\ C27_Auction(pool[j].key)
                /\ statements[i].property # "P27"
                /\ tasks[i].ok
                /\ statements[i].references = <<>>) =>
                   \A pat \in C15_Patterns(statements[i], pool[j].value) :
                       Occurrences(pool[j].value.text, pat) # {} =>
                           C15_Recorded(statements[i], pool[j].value, pat)

C27_Witness ==
    /\ pc = "done"
    /\ result.kind = "ok"
    /\ \E j \in 1..Len(pool) :
           /\ pool[j].key = "http://www.invaluable.com/a"
           /\ Occurrences(pool[j].value.text, "Berlin") # {}
    /\ \E i \in 1..Len(statements) : statements[i].id = "Q1$14" /\ statements[i].property = "P27"
    /\ \E k \in 1..Len(result.list) :
           /\ result.list[k].statement_id = "Q1$3"
           /\ result.list[k].url = "http://www.invaluable.com/a"
    /\ \E k \in 1..Len(result.list) :
           /\ result.list[k].statement_id = "Q1$2"
           /\ result.list[k].url = "http://www.invaluable.com/a"
    /\ \E k \in 1..Len(result.list) :
           /\ result.list[k].statement_id = "Q1$14"
           /\ result.list[k].url = "http://a.example/"

\* The candidates a strategy gathered for the URL, and the one of them its
\* map keeps; the strategy whose entry the chained map keeps for the URL
C28_From(slots, url) == SelectSeq(Gathered(slots), LAMBDA uc : uc.url = url)
C28_Kept(slots, url) == C28_From(slots, url)[Len(C28_From(slots, url))]
C28_Winner(url) ==
    IF C28_From(col.formatter, url) # <<>> THEN C28_Kept(col.formatter, url)
    ELSE IF C28_From(col.websites, url) # <<>> THEN C28_Kept(col.websites, url)
    ELSE C28_Kept(col.pages, url)
C28_Same(uc, other) ==
    /\ uc.url = other.url /\ uc.url_type = other.url_type
    /\ uc.property = other.property /\ uc.external_id = other.external_id
    /\ uc.language = other.language /\ uc.text = other.text

\* C28: when several strategies give the same URL the pool keeps the entry
\* of the strategy that is last in the order wiki, direct website,
\* external-id formatter, whatever order the fetches completed in; a URL
\* that the formatter strategy gave carries source external-id formatter
\* with the property and the id of its formatter fetch.
C28_LastStrategyWins ==
    (pc \in {"matching", "done"} /\ Joined(col)) =>
        /\ \A j \in 1..Len(pool) : C28_Same(pool[j].value, C28_Winner(pool[j].key))
        /\ \A k \in 1..Len(col.formatter) :
               col.formatter[k].got # None =>
                   \E j \in 1..Len(pool) :
                       /\ pool[j].key = col.formatter[k].url
                       /\ pool[j].value.url_type = "ExternalId"
                       /\ pool[j].value.property = Some(col.formatter[k].extra[1])
                       /\ pool[j].value.external_id = Some(col.formatter[k].extra[2])

C28_Witness ==
    /\ pc = "done"
    /\ Joined(col)
    /\ C28_From(col.pages, "https://id.example/X1") # <<>>
    /\ C28_From(col.formatter, "https://id.example/X1") # <<>>
    /\ C28_From(col.pages, "http://a.example/") # <<>>
    /\ C28_From(col.websites, "http://a.example/") # <<>>
    /\ \E j \in 1..Len(pool) :
           /\ pool[j].key = "https://id.example/X1"
           /\ pool[j].value.url_type = "ExternalId"
           /\ pool[j].value.property = Some("P214")
    /\ \E j \in 1..Len(pool) :
           /\ pool[j].key = "http://a.example/"
           /\ pool[j].value.url_type = C28_Kept(col.websites, "http://a.example/").url_type
           /\ pool[j].value.url_type # "WikiExternal"

\* The pool entry the record's url is a key of carries the record's fields
C29_FromPool(rec) ==
    \E j \in 1..Len(pool) :
        /\ pool[j].key = rec.url
        /\ pool[j].value.property = rec.property
        /\ pool[j].value.external_id = rec.external_id
        /\ pool[j].value.stated_in = rec.stated_in
        /\ pool[j].value.language = rec.language

\* C29: in every returned list no two records have the same statement id
\* and url; the url of every record is a key of the pool and the record's
\* property, external id, stated-in and language are those of that pool
\* entry; every record has at least one text window.
C29_RecordsWellFormed ==
    (pc = "done" /\ result.kind = "ok") =>
        /\ \A a, b \in 1..Len(result.list) :
               (/\ result.list[a].statement_id = result.list[b].statement_id
                /\ result.list[a].url = result.list[b].url) => a = b
        /\ \A a \in 1..Len(result.list) :
               /\ C29_FromPool(result.list[a])
               /\ Len(result.list[a].texts) >= 1

C29_Witness ==
    /\ pc = "done"
    /\ result.kind = "ok"
    /\ \E a, b \in 1..Len(result.list) :
           /\ result.list[a].statement_id = result.list[b].statement_id
           /\ result.list[a].url # result.list[b].url
    /\ \E a, b \in 1..Len(result.list) :
           /\ result.list[a].statement_id # result.list[b].statement_id
           /\ result.list[a].url = result.list[b].url
    /\ \E a \in 1..Len(result.list) : Len(result.list[a].texts) >= 2
    /\ \E a \in 1..Len(result.list) : result.list[a].stated_in # None

\* The matching of the statement failed; the output has a record of it; the
\* output has the record for the statement id and url of a raw record
C30_Failed(i) == tasks[i].state = "done" /\ ~tasks[i].ok
C30_InOutput(id) == \E k \in 1..Len(result.list) : result.list[k].statement_id = id
C30_Kept(rec) ==
    \E k \in 1..Len(result.list) :
        /\ result.list[k].statement_id = rec.statement_id
        /\ result.list[k].url = rec.url
        /\ \E t \in 1..Len(result.list[k].texts) : result.list[k].texts[t] = rec.texts[1]

\* C30: when the load of a statement's linked entity fails the statement
\* contributes no record, the records of the other statements are all in
\* the output, and the request returns a list.
C30_AllOrNothing ==
    (pc = "done" /\ Len(tasks) > 0 /\ \E i \in 1..Len(tasks) : C30_Failed(i)) =>
        /\ result.kind = "ok"
        /\ \A i \in 1..Len(tasks) : C30_Failed(i) => ~C30_InOutput(statements[i].id)
        /\ \A i \in 1..Len(tasks) :
               tasks[i].ok =>
                   \A r \in 1..Len(tasks[i].records) :
                       tasks[i].records[r].property # Some("P973") =>
                           C30_Kept(tasks[i].records[r])

====
